---- MODULE Spec2Model ----
(***************************************************************************)
(* The Analysis component of reachoutanalytics                             *)
(* (src/src/app/(statistics)/components/Analysis.tsx): the field-selection *)
(* UI, executeAnalysis, performAnalysis and the statistics helpers.        *)
(*                                                                         *)
(* Conventions of the model                                                *)
(*  - A JavaScript value is a record [k, n, s]: k is the kind ("number",   *)
(*    "string", "null", "undefined"), n the number, s the string.  The     *)
(*    survey data is the result of response.json(), so its numbers are     *)
(*    finite; the model's numbers are integers.                            *)
(*  - A computed number is an exact rational [n, d] (d > 0, lowest terms); *)
(*    a square root is kept as its radicand and compared by squaring.      *)
(*  - Time counts hours since 1970-01-01T00:00Z: one unit is 3,600,000 ms. *)
(*  - A call that can throw a TypeError returns Threw.                     *)
(*  - A plain object used as a dictionary ({} indexed by data strings) is   *)
(*    its own properties in insertion order plus what it inherits from     *)
(*    Object.prototype.  Of the inherited names the strings of the model   *)
(*    hold "constructor" (the global Object function), and of Object's own *)
(*    properties "keys".                                                   *)
(*  - The helpers pearson, stddev and movingAverage are also modelled on   *)
(*    IEEE 754 binary64 numbers (the definitions ending in 64), where      *)
(*    rounding, overflow and underflow of a JavaScript number are kept.    *)
(*  - The values passed to toEpochMs directly also include Date objects,   *)
(*    fractional numbers, Infinity and booleans.                           *)
(***************************************************************************)
EXTENDS Integers, Sequences, FiniteSets, TLC

VARIABLES
  surveyData,            \* useState<SurveyData | null>
  isLoading,             \* useState(true)
  error,                 \* useState<string | null>: TRUE when an error is set
  selectedAnalysisType,  \* useState<AnalysisType | "">
  selectedFields,        \* useState<string[]>
  analyses,              \* useState<AnalysisConfig[]>
  isExecuting,           \* useState(false)
  now,                   \* Date.now()
  lastExec,              \* what the last call of executeAnalysis did
  call,                  \* the arguments of a direct call of performAnalysis
  ret,                   \* what that call returned
  realm                  \* the properties written to the global Object function

vars == <<surveyData, isLoading, error, selectedAnalysisType, selectedFields,
          analyses, isExecuting, now, lastExec, call, ret, realm>>

-----------------------------------------------------------------------------
(* JavaScript values *)

Num(n) == [k |-> "number", n |-> n, s |-> ""]
Str(s) == [k |-> "string", n |-> 0, s |-> s]
Null == [k |-> "null", n |-> 0, s |-> ""]
Undefined == [k |-> "undefined", n |-> 0, s |-> ""]
NaN == [k |-> "NaN", n |-> 0, s |-> ""]
\* a built-in function, s its name
Fn(name) == [k |-> "function", n |-> 0, s |-> name]

\* typeof v === "number"
IsNumber(v) == v.k = "number"
\* v == null
IsNullish(v) == v.k \in {"null", "undefined"}
\* !v : 0, "", null and undefined are falsy
IsFalsy(v) ==
  IsNullish(v) \/ v.k = "NaN" \/ (v.k = "number" /\ v.n = 0) \/ (v.k = "string" /\ v.s = "")

\* String(v)
JsString(v) ==
  CASE v.k = "number" -> ToString(v.n)
    [] v.k = "string" -> v.s
    [] v.k = "null" -> "null"
    [] v.k = "NaN" -> "NaN"
    [] v.k = "function" -> "function " \o v.s \o "() { [native code] }"
    [] OTHER -> "undefined"

\* a + b for a number b: a sum of numbers, NaN for undefined or NaN, and the
\* concatenation of the strings otherwise
JsPlus(a, b) ==
  CASE a.k = "number" -> Num(a.n + b)
    [] a.k \in {"undefined", "NaN"} -> NaN
    [] a.k = "null" -> Num(b)
    [] OTHER -> Str(JsString(a) \o ToString(b))

\* (a || 0) + b for a number b
OrZeroPlus(a, b) == IF IsFalsy(a) THEN Num(b) ELSE JsPlus(a, b)

\* the field meaning "no such element" (fields[0] of an empty list); a field
\* name is never the empty string
NoField == ""

\* r[field]
Get(r, field) == IF field \in DOMAIN r THEN r[field] ELSE Undefined

-----------------------------------------------------------------------------
(* Sequences *)

Last(s) == s[Len(s)]
Take(s, n) == SubSeq(s, 1, IF n < Len(s) THEN n ELSE Len(s))
Drop(s, n) == SubSeq(s, n + 1, Len(s))
MapSeq(s, F(_)) == SubSeq([i \in 1..Len(s) |-> F(s[i])], 1, Len(s))
Range(s) == {s[i] : i \in 1..Len(s)}
Contains(s, e) == \E i \in 1..Len(s) : s[i] = e
\* s[i] of JavaScript (0-based), NoField beyond the end
At(s, i) == IF i + 1 \in 1..Len(s) THEN s[i + 1] ELSE NoField
\* xs.find(P) ?? dflt
FindOr(s, P(_), dflt) ==
  LET hits == SelectSeq(s, P) IN IF Len(hits) > 0 THEN hits[1] ELSE dflt

RECURSIVE InsertSorted(_, _)
\* e put into the sorted s after every element whose key is not greater
InsertSorted(s, e) ==
  IF s = <<>> THEN <<e>>
  ELSE IF e.key.n * Last(s).key.d < Last(s).key.n * e.key.d
       THEN Append(InsertSorted(SubSeq(s, 1, Len(s) - 1), e), Last(s))
       ELSE Append(s, e)

RECURSIVE StableSort(_)
\* Array.prototype.sort((a, b) => a.key - b.key) over elements [key, val], key a
\* rational: ascending and stable (ES2019); a descending sort (b - a) negates
\* the key
StableSort(s) ==
  IF s = <<>> THEN <<>>
  ELSE InsertSorted(StableSort(SubSeq(s, 1, Len(s) - 1)), Last(s))

RECURSIVE SumSeq(_)
SumSeq(s) == IF s = <<>> THEN 0 ELSE SumSeq(SubSeq(s, 1, Len(s) - 1)) + Last(s)

Min(a, b) == IF a < b THEN a ELSE b
Max(a, b) == IF a > b THEN a ELSE b
Abs(a) == IF a < 0 THEN -a ELSE a

-----------------------------------------------------------------------------
(* Exact rationals for the numbers the code computes *)

RECURSIVE Gcd(_, _)
Gcd(a, b) == IF b = 0 THEN a ELSE Gcd(b, a % b)

Rat(n, d) ==
  LET g == Gcd(Abs(n), Abs(d))
      sgn == IF d < 0 THEN -1 ELSE 1
  IN [n |-> sgn * (n \div g), d |-> sgn * (d \div g)]
R(n) == [n |-> n, d |-> 1]
RAdd(a, b) == Rat(a.n * b.d + b.n * a.d, a.d * b.d)
RSub(a, b) == Rat(a.n * b.d - b.n * a.d, a.d * b.d)
RMul(a, b) == Rat(a.n * b.n, a.d * b.d)
\* a / b for b # 0
RDiv(a, b) == Rat(a.n * b.d, a.d * b.n)
RLt(a, b) == a.n * b.d < b.n * a.d
RLe(a, b) == a.n * b.d <= b.n * a.d
RAbs(a) == [n |-> Abs(a.n), d |-> a.d]
RIsInt(a) == a.d = 1

RECURSIVE RSum(_)
\* xs.reduce((a, b) => a + b, 0)
RSum(s) == IF s = <<>> THEN R(0) ELSE RAdd(RSum(SubSeq(s, 1, Len(s) - 1)), Last(s))

-----------------------------------------------------------------------------
(* IEEE 754 binary64, the arithmetic of a JavaScript number                  *)

\* the bits of a limb of a natural number
LimbBits == 13
LimbBase == 2 ^ LimbBits
\* the bits of a mantissa, the least exponent of the last mantissa bit, and
\* the exponent no finite number reaches
MantissaBits == 53
MinExp == -1074
MaxExp == 1024

\* A natural number is the sequence of its limbs, least first, the last limb
\* not 0; <<>> is 0.
RECURSIVE BTrim(_)
BTrim(a) == IF a # <<>> /\ a[Len(a)] = 0 THEN BTrim(SubSeq(a, 1, Len(a) - 1)) ELSE a

RECURSIVE BCarry(_, _, _)
\* the limbs of the number whose limb sums are raw, from limb i with a carry
BCarry(raw, i, carry) ==
  IF i > Len(raw) THEN (IF carry = 0 THEN <<>> ELSE BCarry(<<carry>>, 1, 0))
  ELSE <<(raw[i] + carry) % LimbBase>> \o BCarry(raw, i + 1, (raw[i] + carry) \div LimbBase)

BLimb(a, i) == IF i \in 1..Len(a) THEN a[i] ELSE 0
BFromInt(n) == BTrim(BCarry(<<n>>, 1, 0))
BAdd(a, b) ==
  BTrim(BCarry([i \in 1..Max(Len(a), Len(b)) |-> BLimb(a, i) + BLimb(b, i)], 1, 0))

RECURSIVE BBorrow(_, _, _, _)
BBorrow(a, b, i, borrow) ==
  IF i > Len(a) THEN <<>>
  ELSE <<(a[i] - BLimb(b, i) - borrow + LimbBase) % LimbBase>>
       \o BBorrow(a, b, i + 1, IF a[i] - BLimb(b, i) - borrow < 0 THEN 1 ELSE 0)
\* a - b for a >= b
BSub(a, b) == BTrim(BBorrow(a, b, 1, 0))

RECURSIVE BCmpAt(_, _, _)
BCmpAt(a, b, i) ==
  IF i = 0 THEN 0
  ELSE IF a[i] # b[i] THEN (IF a[i] < b[i] THEN -1 ELSE 1)
  ELSE BCmpAt(a, b, i - 1)
\* -1, 0 or 1 as a is less than, equal to or greater than b
BCmp(a, b) ==
  IF Len(a) # Len(b) THEN (IF Len(a) < Len(b) THEN -1 ELSE 1) ELSE BCmpAt(a, b, Len(a))

BMul(a, b) ==
  IF a = <<>> \/ b = <<>> THEN <<>>
  ELSE BTrim(BCarry([k \in 1..(Len(a) + Len(b) - 1) |->
                      SumSeq([i \in 1..Len(a) |-> a[i] * BLimb(b, k + 1 - i)])], 1, 0))

\* a * 2^k and floor(a / 2^k)
BShl(a, k) ==
  IF a = <<>> THEN <<>>
  ELSE [i \in 1..(k \div LimbBits) |-> 0]
       \o BCarry([i \in 1..Len(a) |-> a[i] * 2 ^ (k % LimbBits)], 1, 0)
BShr(a, k) ==
  LET q == k \div LimbBits
      r == k % LimbBits
  IN IF Len(a) <= q THEN <<>>
     ELSE BTrim([i \in 1..(Len(a) - q) |->
                  (a[i + q] \div 2 ^ r) + (BLimb(a, i + q + 1) % 2 ^ r) * 2 ^ (LimbBits - r)])

\* the number of bits of a
BBitLen(a) ==
  IF a = <<>> THEN 0
  ELSE LimbBits * (Len(a) - 1)
       + (CHOOSE n \in 1..LimbBits : 2 ^ (n - 1) <= a[Len(a)] /\ a[Len(a)] < 2 ^ n)
BIsOdd(a) == a # <<>> /\ a[1] % 2 = 1

\* one step of restoring division: the next quotient bit of 2 * p.r by d
BDivideStep(p, d) ==
  IF BCmp(BShl(p.r, 1), d) >= 0
  THEN [q |-> BAdd(BShl(p.q, 1), <<1>>), r |-> BSub(BShl(p.r, 1), d)]
  ELSE [q |-> BShl(p.q, 1), r |-> BShl(p.r, 1)]

RECURSIVE BDivide(_, _, _)
\* restoring division: p = [q, r] after k more quotient bits, r < d; a
\* remainder of 0 leaves only zero bits
BDivide(p, d, k) ==
  IF k = 0 THEN p
  ELSE IF p.r = <<>> THEN [q |-> BShl(p.q, k), r |-> <<>>]
  ELSE BDivide(BDivideStep(p, d), d, k - 1)

RECURSIVE BRoot(_, _, _)
\* the greatest r + x, x below 2^(b+1), whose square is at most n
BRoot(n, r, b) ==
  IF b < 0 THEN r
  ELSE IF BCmp(BMul(BAdd(r, BShl(<<1>>, b)), BAdd(r, BShl(<<1>>, b))), n) <= 0
       THEN BRoot(n, BAdd(r, BShl(<<1>>, b)), b - 1)
       ELSE BRoot(n, r, b - 1)

\* A number is finite ((-1)^s * m * 2^e, m of MantissaBits bits, or of fewer
\* with e = MinExp), an infinity or NaN.  The two zeros are not told apart.
Fin(s, m, e) == [c |-> "fin", s |-> s, m |-> m, e |-> e]
FZero == Fin(0, <<>>, 0)
FInf(s) == [c |-> "inf", s |-> s, m |-> <<>>, e |-> 0]
FNaN == [c |-> "nan", s |-> 0, m |-> <<>>, e |-> 0]
FIsZero(a) == a.c = "fin" /\ a.m = <<>>
FIsFinite(a) == a.c = "fin"

\* the number of a mantissa of at most MantissaBits + 1 bits that rounding left
FPack(s, m, e) ==
  IF m = <<>> THEN FZero
  ELSE IF BBitLen(m) > MantissaBits
       THEN (IF e + 1 + MantissaBits > MaxExp THEN FInf(s) ELSE Fin(s, BShr(m, 1), e + 1))
  ELSE IF e + BBitLen(m) > MaxExp THEN FInf(s) ELSE Fin(s, m, e)

\* the mantissa q with what was shifted out of it rounded to nearest, ties to even
FNearest(q, rem, half) ==
  IF BCmp(rem, half) > 0 \/ (BCmp(rem, half) = 0 /\ BIsOdd(q)) THEN BAdd(q, <<1>>) ELSE q

\* m * 2^e shifted right by sh > 0 bits and rounded
FRoundBy(s, m, e, sh) ==
  FPack(s, FNearest(BShr(m, sh), BSub(m, BShl(BShr(m, sh), sh)), BShl(<<1>>, sh - 1)), e + sh)

\* the number nearest to (-1)^s * m * 2^e
FRound(s, m, e) ==
  IF m = <<>> THEN FZero
  ELSE IF Max(e + BBitLen(m) - MantissaBits, MinExp) <= e
       THEN FPack(s, BShl(m, e - Max(e + BBitLen(m) - MantissaBits, MinExp)),
                  Max(e + BBitLen(m) - MantissaBits, MinExp))
       ELSE FRoundBy(s, m, e, Max(e + BBitLen(m) - MantissaBits, MinExp) - e)

\* the number of an integer
FromInt(n) == FRound(IF n < 0 THEN 1 ELSE 0, BFromInt(Abs(n)), 0)
\* 2^k
FPow2(k) == FRound(0, <<1>>, k)

FNeg(a) == IF a.c = "nan" \/ FIsZero(a) THEN a ELSE [a EXCEPT !.s = 1 - @]

\* the sum of the magnitudes ma * 2^e and mb * 2^e with signs sa and sb
FSumAt(sa, ma, sb, mb, e) ==
  IF sa = sb THEN FRound(sa, BAdd(ma, mb), e)
  ELSE IF BCmp(ma, mb) >= 0 THEN FRound(sa, BSub(ma, mb), e)
  ELSE FRound(sb, BSub(mb, ma), e)

\* the bits beyond which the smaller term of a sum only decides the rounding
FarApart == 120
GuardBits == 66

\* a + b for finite non-zero a and b, a.e >= b.e
FAddOrdered(a, b) ==
  IF a.e - b.e > FarApart
  THEN FSumAt(a.s, BShl(a.m, GuardBits), b.s, <<1>>, a.e - GuardBits)
  ELSE FSumAt(a.s, BShl(a.m, a.e - b.e), b.s, b.m, b.e)

\* a + b
FAdd(a, b) ==
  IF a.c = "nan" \/ b.c = "nan" THEN FNaN
  ELSE IF a.c = "inf" THEN (IF b.c = "inf" /\ b.s # a.s THEN FNaN ELSE a)
  ELSE IF b.c = "inf" THEN b
  ELSE IF FIsZero(a) THEN b
  ELSE IF FIsZero(b) THEN a
  ELSE IF a.e >= b.e THEN FAddOrdered(a, b) ELSE FAddOrdered(b, a)

\* a - b
FSub(a, b) == FAdd(a, FNeg(b))

\* a * b
FMul(a, b) ==
  IF a.c = "nan" \/ b.c = "nan" THEN FNaN
  ELSE IF a.c = "inf" \/ b.c = "inf"
       THEN (IF FIsZero(a) \/ FIsZero(b) THEN FNaN ELSE FInf((a.s + b.s) % 2))
  ELSE FRound((a.s + b.s) % 2, BMul(a.m, b.m), a.e + b.e)

\* the quotient of two mantissas of MantissaBits bits to 55 bits and more, its
\* last bit set when the division left a remainder
FQuotient(s, qr, e) ==
  FRound(s, BAdd(BShl(qr.q, 1), IF qr.r = <<>> THEN <<>> ELSE <<1>>), e)

\* (ma * 2^ea) / (mb * 2^eb), the mantissas of MantissaBits bits
FDivAligned(s, ma, ea, mb, eb) ==
  IF BCmp(ma, mb) >= 0
  THEN FQuotient(s, BDivide([q |-> <<1>>, r |-> BSub(ma, mb)], mb, 55), ea - eb - 56)
  ELSE FQuotient(s, BDivide([q |-> <<>>, r |-> ma], mb, 55), ea - eb - 56)

\* a / b
FDiv(a, b) ==
  IF a.c = "nan" \/ b.c = "nan" THEN FNaN
  ELSE IF a.c = "inf" THEN (IF b.c = "inf" THEN FNaN ELSE FInf((a.s + b.s) % 2))
  ELSE IF b.c = "inf" THEN FZero
  ELSE IF FIsZero(b) THEN (IF FIsZero(a) THEN FNaN ELSE FInf((a.s + b.s) % 2))
  ELSE IF FIsZero(a) THEN FZero
  ELSE FDivAligned((a.s + b.s) % 2,
                   BShl(a.m, MantissaBits - BBitLen(a.m)), a.e - (MantissaBits - BBitLen(a.m)),
                   BShl(b.m, MantissaBits - BBitLen(b.m)), b.e - (MantissaBits - BBitLen(b.m)))

\* the root of n * 4^h from the integer root r of n, n of 109 bits or more
FRootOf(n, r, h) ==
  FRound(0, BAdd(BShl(r, 1), IF BMul(r, r) = n THEN <<>> ELSE <<1>>), h - 1)

\* the root of m * 2^e with the mantissa shifted left by t bits, e - t even
FSqrtShifted(m, e, t) ==
  FRootOf(BShl(m, t), BRoot(BShl(m, t), <<>>, (BBitLen(m) + t) \div 2), (e - t) \div 2)

\* Math.sqrt(a)
FSqrt(a) ==
  IF a.c = "nan" THEN FNaN
  ELSE IF FIsZero(a) THEN a
  ELSE IF a.s = 1 THEN FNaN
  ELSE IF a.c = "inf" THEN a
  ELSE FSqrtShifted(a.m, a.e, 110 - BBitLen(a.m) + ((a.e - (110 - BBitLen(a.m))) % 2))

FAbs(a) == [a EXCEPT !.s = 0]
\* a === b, a < b and a <= b
FEq(a, b) == a.c # "nan" /\ b.c # "nan" /\ a = b
FNegative(a) == a.c # "nan" /\ a.s = 1 /\ ~FIsZero(a)
FLt(a, b) == FNegative(FSub(a, b))
FLe(a, b) == FLt(a, b) \/ FEq(a, b)
-----------------------------------------------------------------------------
(* Analysis registry *)

\* ANALYSIS_TYPES: the options of the type select
ANALYSIS_TYPES ==
  {"Calculated Measure (KPI)", "Ranking", "Breakdown (geo spatial)", "Breakdown",
   "Overview", "Trend Over Time", "Comparison", "Relative Importance",
   "Ranking (grouped)", "Year to Date", "Process Control (rolling mean)",
   "Process Control (mean)", "Correlation", "Mutual Information",
   "Clustering (k-means)", "Anomaly (spike)", "Anomaly (trend)",
   "Period over Period", "Period Changes", "Period Changes (detailed)",
   "Period over Period (selected)", "Trend with Forecast",
   "Time Series Decomposition"}

\* ANALYSIS_REQUIREMENTS[t]: min and max of the registry entry
ANALYSIS_REQUIREMENTS(t) ==
  CASE t = "Calculated Measure (KPI)" -> [min |-> 1, max |-> 5]
    [] t = "Ranking" -> [min |-> 1, max |-> 1]
    [] t = "Breakdown (geo spatial)" -> [min |-> 1, max |-> 2]
    [] t = "Breakdown" -> [min |-> 1, max |-> 3]
    [] t = "Overview" -> [min |-> 0, max |-> 0]
    [] t = "Trend Over Time" -> [min |-> 1, max |-> 2]
    [] t = "Comparison" -> [min |-> 2, max |-> 4]
    [] t = "Relative Importance" -> [min |-> 2, max |-> 5]
    [] t = "Ranking (grouped)" -> [min |-> 2, max |-> 3]
    [] t = "Year to Date" -> [min |-> 1, max |-> 2]
    [] t = "Process Control (rolling mean)" -> [min |-> 1, max |-> 2]
    [] t = "Process Control (mean)" -> [min |-> 1, max |-> 2]
    [] t = "Correlation" -> [min |-> 2, max |-> 10]
    [] t = "Mutual Information" -> [min |-> 2, max |-> 10]
    [] t = "Clustering (k-means)" -> [min |-> 2, max |-> 10]
    [] t = "Anomaly (spike)" -> [min |-> 1, max |-> 2]
    [] t = "Anomaly (trend)" -> [min |-> 1, max |-> 2]
    [] t = "Period over Period" -> [min |-> 1, max |-> 2]
    [] t = "Period Changes" -> [min |-> 1, max |-> 2]
    [] t = "Period Changes (detailed)" -> [min |-> 1, max |-> 3]
    [] t = "Period over Period (selected)" -> [min |-> 2, max |-> 3]
    [] t = "Trend with Forecast" -> [min |-> 1, max |-> 2]
    [] t = "Time Series Decomposition" -> [min |-> 1, max |-> 2]

-----------------------------------------------------------------------------
(* Type inference and date conversion *)

\* 24 * 3600 * 1000 ms, in hours
DayLength == 24
\* Date.UTC(1899, 11, 30), in hours
excelEpoch == -613656
\* the values sampled by isMostlyNumeric and isMostlyDateLike
SampleCap == 50

NoTime == [some |-> FALSE, t |-> 0]
Time(t) == [some |-> TRUE, t |-> t]

\* new Date(s).getTime() for the strings of the model: an ISO date or date-time
\* parses to its UTC time, a word does not parse (NaN)
DateParse(s) ==
  CASE s = "2022-01-01" -> Time(455832)
    [] s = "2022-01-01T12:00Z" -> Time(455844)
    [] s = "2022-01-02" -> Time(455856)
    [] s = "2022-01-03" -> Time(455880)
    [] OTHER -> NoTime

\* Values that parsed JSON does not hold but a caller can pass: a Date with its
\* time (an Invalid Date has the time NaN), a number with a fraction (n + s,
\* s one of ".25", ".5", ".75"), Infinity, a boolean
DateValue(t) == [k |-> "date", n |-> t, s |-> ""]
InvalidDate == [k |-> "date", n |-> 0, s |-> "Invalid Date"]
Fraction(n, s) == [k |-> "number", n |-> n, s |-> s]
Infinity == [k |-> "Infinity", n |-> 0, s |-> ""]
Boolean(b) == [k |-> "boolean", n |-> 0, s |-> IF b THEN "true" ELSE "false"]

\* Math.floor
MathFloor(value) == value.n
\* Math.round: the nearest integer, a half rounded up
MathRound(value) == IF value.s \in {".5", ".75"} THEN value.n + 1 ELSE value.n

\* a conversion that takes no number for a date
toEpochMsOfDates(value) ==
  IF IsNullish(value) THEN NoTime
  ELSE IF value.k = "date" THEN (IF value.s = "Invalid Date" THEN NoTime ELSE Time(value.n))
  ELSE IF value.k = "string" THEN DateParse(value.s)
  ELSE NoTime

\* toEpochMs
toEpochMs(value) ==
  IF IsNullish(value) THEN NoTime
  ELSE IF value.k = "date" THEN (IF value.s = "Invalid Date" THEN NoTime ELSE Time(value.n))
  ELSE IF value.k = "number" THEN Time(excelEpoch + MathRound(value) * DayLength)
  ELSE IF value.k = "string" THEN DateParse(value.s)
  ELSE NoTime

\* the non-null values among the first SampleCap rows
SampledOfFirstRows(field, rows) ==
  SelectSeq(MapSeq(Take(rows, SampleCap), LAMBDA r : Get(r, field)), LAMBDA v : ~IsNullish(v))

\* the values the sampling loop of isMostlyNumeric / isMostlyDateLike looks at:
\* the first SampleCap non-null values of the field
Sampled(field, rows) ==
  Take(SelectSeq(MapSeq(rows, LAMBDA r : Get(r, field)), LAMBDA v : ~IsNullish(v)), SampleCap)

\* isMostlyNumeric: numeric / seen >= 0.7
isMostlyNumeric(field, rows) ==
  IF field = NoField THEN FALSE
  ELSE LET sample == Sampled(field, rows)
           seen == Len(sample)
           numeric == Len(SelectSeq(sample, IsNumber))
       IN seen > 0 /\ 10 * numeric >= 7 * seen

\* isMostlyDateLike: ok / seen >= 0.7
isMostlyDateLike(field, rows) ==
  IF field = NoField THEN FALSE
  ELSE LET sample == Sampled(field, rows)
           seen == Len(sample)
           ok == Len(SelectSeq(sample, LAMBDA v : toEpochMs(v).some))
       IN seen > 0 /\ 10 * ok >= 7 * seen

-----------------------------------------------------------------------------
(* Statistics primitives *)

\* a square root, kept exact: Sqrt(r) stands for the non-negative root of r
Sqrt(r) == [rad |-> r]
\* a + c * sqrt(rad): the control limits and thresholds
Surd(a, c, root) == [a |-> a, c |-> c, rad |-> root.rad]
\* y > a + c * sqrt(rad), for c >= 0
GtSurd(y, sd) ==
  LET diff == RSub(y, sd.a)
  IN diff.n > 0 /\ RLt(RMul(RMul(sd.c, sd.c), sd.rad), RMul(diff, diff))

\* values.reduce((a, b) => a + b, 0) / values.length
MeanOf(values) == RDiv(RSum(values), R(Len(values)))

\* a * a
RSq(a) == RMul(a, a)

\* the sum of (as[i] - meanA) * (bs[i] - meanB) over the first n elements
SumOfProducts(as, bs, meanA, meanB, n) ==
  RSum([i \in 1..n |-> RMul(RSub(as[i], meanA), RSub(bs[i], meanB))])

\* the variance of stddev: the squared deviations from mean over n - 1
Variance(values, mean) ==
  RDiv(SumOfProducts(values, values, mean, mean, Len(values)), R(Len(values) - 1))

\* stddev
stddev(values) ==
  IF Len(values) < 2 THEN Sqrt(R(0)) ELSE Sqrt(Variance(values, MeanOf(values)))

\* movingAverage
movingAverage(values, window) ==
  LET w == Max(1, window)
  IN [i \in 1..Len(values) |->
        RDiv(RSum(SubSeq(values, Max(1, i - w + 1), i)), R(Min(i, w)))]

\* meanOfField
meanOfField(field, rows) ==
  LET nums == SelectSeq(MapSeq(rows, LAMBDA r : Get(r, field)), IsNumber)
  IN IF Len(nums) > 0 THEN MeanOf(MapSeq(nums, LAMBDA v : R(v.n))) ELSE R(0)

\* a correlation num / sqrt(den2), kept exact
Corr(num, den2) == [num |-> num, den2 |-> den2]
\* the number c as a correlation
CorrConst(c) == Corr(R(c), R(1))
\* the correlation equals the integer c (c >= 0)
CorrIs(r, c) == r.num.n * c >= 0 /\ RMul(r.num, r.num) = RMul(R(c * c), r.den2)

\* the last lines of pearson: num / Math.sqrt(denA * denB), 0 for a zero
\* denominator
CorrFrom(num, denA, denB) ==
  IF denA.n = 0 \/ denB.n = 0 THEN CorrConst(0) ELSE Corr(num, RMul(denA, denB))

\* the sums of pearson about the means
CorrAbout(as, bs, meanA, meanB) ==
  CorrFrom(SumOfProducts(as, bs, meanA, meanB, Len(as)),
           SumOfProducts(as, as, meanA, meanA, Len(as)),
           SumOfProducts(bs, bs, meanB, meanB, Len(as)))

\* pearson over the two columns of the rows it kept
CorrOf(as, bs) ==
  IF Len(as) < 2 THEN CorrConst(0) ELSE CorrAbout(as, bs, MeanOf(as), MeanOf(bs))

\* the rows pearson keeps: both values are numbers
BothNumbers(fieldA, fieldB, rows) ==
  SelectSeq(rows, LAMBDA r : IsNumber(Get(r, fieldA)) /\ IsNumber(Get(r, fieldB)))

\* the numbers of a field of the rows
Column(field, rows) == MapSeq(rows, LAMBDA r : R(Get(r, field).n))

\* pearson
pearson(fieldA, fieldB, rows) ==
  CorrOf(Column(fieldA, BothNumbers(fieldA, fieldB, rows)),
         Column(fieldB, BothNumbers(fieldA, fieldB, rows)))

\* a matrix that computes its diagonal like every other cell
PearsonEverywhere(fields, rows) ==
  [i \in 1..Len(fields) |-> [j \in 1..Len(fields) |-> pearson(fields[i], fields[j], rows)]]

\* buildCorrelationMatrix
buildCorrelationMatrix(fields, rows) ==
  [i \in 1..Len(fields) |->
    [j \in 1..Len(fields) |->
      IF i = j THEN CorrConst(1) ELSE pearson(fields[i], fields[j], rows)]]

\* the last lines of linearRegression: a = meanY - b * meanX
LineThrough(b, meanX, meanY) == [a |-> RSub(meanY, RMul(b, meanX)), b |-> b]

\* b = den === 0 ? 0 : num / den
Slope(num, den) == IF den.n = 0 THEN R(0) ELSE RDiv(num, den)

\* the sums of linearRegression about the means
FitAbout(xs, ys, meanX, meanY, n) ==
  LineThrough(Slope(SumOfProducts(xs, ys, meanX, meanY, n),
                    SumOfProducts(xs, xs, meanX, meanX, n)),
              meanX, meanY)

\* linearRegression over n = min(xs.length, ys.length) points; the callers pass
\* lists of one length, so the means of the whole lists are over n
FitOver(xs, ys, n) ==
  IF n < 2 THEN [a |-> R(0), b |-> R(0)]
  ELSE FitAbout(xs, ys, RDiv(RSum(xs), R(n)), RDiv(RSum(ys), R(n)), n)

\* linearRegression
linearRegression(xs, ys) == FitOver(xs, ys, Min(Len(xs), Len(ys)))

-----------------------------------------------------------------------------
(* Series extraction *)

\* the points in the order of the rows
Unsorted(pts) == pts
\* pts.sort((a, b) => a.t - b.t) over points [t, y]
SortByT(pts) ==
  MapSeq(StableSort(MapSeq(pts, LAMBDA p : [key |-> R(p.t), val |-> p])), LAMBDA e : e.val)

\* extractTimeSeries
extractTimeSeries(timeField, valueField, rows) ==
  LET kept == SelectSeq(rows, LAMBDA r : toEpochMs(Get(r, timeField)).some
                                          /\ IsNumber(Get(r, valueField)))
  IN SortByT(MapSeq(kept, LAMBDA r : [t |-> toEpochMs(Get(r, timeField)).t,
                                      y |-> Get(r, valueField).n]))

\* Array.prototype.slice(start, end): a negative index counts from the end
SliceIndex(len, i) == IF i < 0 THEN Max(len + i, 0) ELSE Min(i, len)
JsSlice(s, start, end) == SubSeq(s, SliceIndex(Len(s), start) + 1, SliceIndex(Len(s), end))

\* the least number of points of a period of splitLastPeriod
MinPeriod == 10

\* a split whose previous slice is everything before the current one
SplitBeforeLastPeriod(pts) ==
  LET n == Len(pts)
      period == Max(MinPeriod, n \div 4)
  IN [current |-> JsSlice(pts, n - period, n),
      previous |-> JsSlice(pts, 0, n - period)]

\* splitLastPeriod
splitLastPeriod(pts) ==
  LET n == Len(pts)
      period == Max(MinPeriod, n \div 4)
  IN [current |-> JsSlice(pts, n - period, n),
      previous |-> JsSlice(pts, Max(0, n - 2 * period), n - period)]

\* Date.UTC(d.getUTCFullYear(), d.getUTCMonth(), d.getUTCDate())
UtcDay(t) == (t \div DayLength) * DayLength

RECURSIVE BucketFold(_, _)
\* the Map of bucketByDay after the points in order: entries [key, val] in
\* insertion order
BucketFold(points, i) ==
  IF i = 0 THEN <<>>
  ELSE LET m == BucketFold(points, i - 1)
           k == UtcDay(points[i].t)
           at == {j \in 1..Len(m) : m[j].key = R(k)}
       IN IF at = {} THEN Append(m, [key |-> R(k), val |-> points[i].y])
          ELSE [j \in 1..Len(m) |-> IF j \in at THEN [m[j] EXCEPT !.val = @ + points[i].y]
                                    ELSE m[j]]

\* bucketByDay
bucketByDay(points) ==
  MapSeq(StableSort(BucketFold(points, Len(points))), LAMBDA e : [t |-> e.key.n, y |-> e.val])

-----------------------------------------------------------------------------
(* Plain objects used as dictionaries, and the global Object function *)

\* the largest array-index key ("0", "1", ...) of the model's data
MaxIndexKey == 12

OwnAt(obj, key) == {i \in 1..Len(obj) : obj[i].key = key}
HasOwn(obj, key) == OwnAt(obj, key) # {}
OwnVal(obj, key) == obj[CHOOSE i \in OwnAt(obj, key) : TRUE].val

\* obj[key] of an object literal: its own property, else the property of
\* Object.prototype ("constructor" is the Object function)
GetProp(obj, key) ==
  IF HasOwn(obj, key) THEN OwnVal(obj, key)
  ELSE IF key = "constructor" THEN Fn("Object")
  ELSE Undefined

\* obj[key] = val: an own property keeps its place, a new one is added last
SetProp(obj, key, val) ==
  IF HasOwn(obj, key)
  THEN [i \in 1..Len(obj) |-> IF obj[i].key = key THEN [key |-> key, val |-> val] ELSE obj[i]]
  ELSE Append(obj, [key |-> key, val |-> val])

\* the array index a property key denotes, or -1
IndexOf(key) ==
  IF \E i \in 0..MaxIndexKey : ToString(i) = key
  THEN CHOOSE i \in 0..MaxIndexKey : ToString(i) = key
  ELSE -1

\* Object.entries(obj) / Object.keys(obj): the own properties, array-index keys
\* first in ascending order, then the other keys in insertion order
OwnEntries(obj) ==
  LET idx == SelectSeq(obj, LAMBDA e : IndexOf(e.key) >= 0)
      rest == SelectSeq(obj, LAMBDA e : IndexOf(e.key) < 0)
  IN MapSeq(StableSort(MapSeq(idx, LAMBDA e : [key |-> R(IndexOf(e.key)), val |-> e])),
            LAMBDA e : e.val) \o rest

\* Object[key]: a property written by this page (realm), else the built-in
GetObjectProp(rlm, key) ==
  IF HasOwn(rlm, key) THEN OwnVal(rlm, key)
  ELSE IF key = "keys" THEN Fn("keys")
  ELSE IF key = "constructor" THEN Fn("Function")
  ELSE Undefined

\* Object.keys and Object.entries can be called: Object.keys is still a function
\* (the code reaches both through the same global; only "keys" is a string of
\* the model)
ObjectKeysCallable(rlm) == GetObjectProp(rlm, "keys").k = "function"

\* the seq without its repeated elements: Array.from(new Set(seq))
RECURSIVE Unique(_)
Unique(s) ==
  IF s = <<>> THEN <<>>
  ELSE LET u == Unique(SubSeq(s, 1, Len(s) - 1))
       IN IF Contains(u, Last(s)) THEN u ELSE Append(u, Last(s))

RECURSIVE Flatten(_)
Flatten(ss) == IF ss = <<>> THEN <<>> ELSE Flatten(SubSeq(ss, 1, Len(ss) - 1)) \o Last(ss)

-----------------------------------------------------------------------------
(* Clustering and mutual information *)

\* the squared distance of point p to centre c
Dist2(p, c) == RAdd(RSq(RSub(R(p.x), c.x)), RSq(RSub(R(p.y), c.y)))

\* let best = 0; let bestD = Infinity
NoBest == [best |-> 0, bestD |-> R(0), infinite |-> TRUE]
\* if (d <= bestD) { bestD = d; best = c }: the last of the nearest would win
BetterOrEqual(acc, c, d) ==
  IF acc.infinite \/ RLe(d, acc.bestD) THEN [best |-> c, bestD |-> d, infinite |-> FALSE] ELSE acc
\* if (d < bestD) { bestD = d; best = c }
Better(acc, c, d) ==
  IF acc.infinite \/ RLt(d, acc.bestD) THEN [best |-> c, bestD |-> d, infinite |-> FALSE] ELSE acc

\* the assign loop of kmeans2D over the centres from c (0-based) on
RECURSIVE AssignLoop(_, _, _, _)
AssignLoop(p, centers, c, acc) ==
  IF c >= Len(centers) THEN acc.best
  ELSE AssignLoop(p, centers, c + 1, Better(acc, c, Dist2(p, centers[c + 1])))
Nearest(p, centers) == AssignLoop(p, centers, 0, NoBest)

\* the array of the elements of s, each evaluated once
Array(s) == SubSeq(s, 1, Len(s))

\* sum[c].x += pts[i].x over the points of a centre: the sum of xs[from..to].
\* The numbers are exact, so the order of the additions does not change the
\* sum; halving keeps the evaluation of a long sum shallow.
RECURSIVE SumOver(_, _, _)
SumOver(xs, from, to) ==
  IF from > to THEN R(0)
  ELSE IF from = to THEN xs[from]
  ELSE RAdd(SumOver(xs, from, (from + to) \div 2), SumOver(xs, ((from + to) \div 2) + 1, to))

\* the update loop of kmeans2D: a centre without points is kept
UpdateCenters(pts, labels, centers) ==
  Array([c \in 1..Len(centers) |->
    LET mine == SelectSeq([i \in 1..Len(pts) |-> [p |-> pts[i], l |-> labels[i]]],
                          LAMBDA e : e.l = c - 1)
    IN IF Len(mine) = 0 THEN centers[c]
       ELSE [x |-> RDiv(SumOver(Array(MapSeq(mine, LAMBDA e : R(e.p.x))), 1, Len(mine)),
                        R(Len(mine))),
             y |-> RDiv(SumOver(Array(MapSeq(mine, LAMBDA e : R(e.p.y))), 1, Len(mine)),
                        R(Len(mine)))]])

\* TLC evaluates an argument when it is first used; v is evaluated here
Evaluated(v) == v = v

\* the iterations of kmeans2D, each evaluated before the next begins
RECURSIVE KMeansIter(_, _, _, _)
KMeansIter(pts, labels, centers, iters) ==
  IF iters = 0 THEN [labels |-> labels, centers |-> centers]
  ELSE LET assigned == Array([i \in 1..Len(pts) |-> Nearest(pts[i], centers)])
           updated == UpdateCenters(pts, assigned, centers)
       IN CASE Evaluated(updated) -> KMeansIter(pts, assigned, updated, iters - 1)

\* centers.push({ ...pts[Math.floor((i * pts.length) / k)] }), the clock added
\* to the index
ClockSeededCenters(pts, k) ==
  [c \in 1..k |-> [x |-> R(pts[(((((c - 1) * Len(pts)) \div k) + now) % Len(pts)) + 1].x),
                   y |-> R(pts[(((((c - 1) * Len(pts)) \div k) + now) % Len(pts)) + 1].y)]]
\* centers.push({ ...pts[Math.floor((i * pts.length) / k)] })
InitialCenters(pts, k) ==
  [c \in 1..k |-> [x |-> R(pts[(((c - 1) * Len(pts)) \div k) + 1].x),
                   y |-> R(pts[(((c - 1) * Len(pts)) \div k) + 1].y)]]

\* kmeans2D
kmeans2D(pts, k, iters) ==
  IF Len(pts) = 0 THEN [labels |-> <<>>, centers |-> <<>>]
  ELSE KMeansIter(pts, [i \in 1..Len(pts) |-> 0], InitialCenters(pts, k), iters)

\* the pairs mutualInformation samples
PairCap == 5000

\* discretize: an integer is its own 0.1-wide bin; the model's strings are
\* trimmed and shorter than 40 characters
discretize(v) == IF IsNumber(v) THEN "n:" \o ToString(v.n) ELSE "c:" \o JsString(v)

\* mutualInformation: the sum of p * log(p / (pa * pb)) over the pairs seen, kept
\* as its terms [p, q] (p * log q), none for fewer than 2 pairs
mutualInformation(aField, bField, rows) ==
  LET both == SelectSeq(rows, LAMBDA r : ~IsNullish(Get(r, aField)) /\ ~IsNullish(Get(r, bField)))
      pairs == MapSeq(Take(both, PairCap),
                      LAMBDA r : <<discretize(Get(r, aField)), discretize(Get(r, bField))>>)
      n == Len(pairs)
      Count(P(_)) == Len(SelectSeq(pairs, P))
  IN IF n < 2 THEN <<>>
     ELSE MapSeq(Unique(pairs),
                 LAMBDA ab :
                   LET p == Rat(Count(LAMBDA q : q = ab), n)
                       pa == Rat(Count(LAMBDA q : q[1] = ab[1]), n)
                       pb == Rat(Count(LAMBDA q : q[2] = ab[2]), n)
                   IN [p |-> p, q |-> RDiv(p, RMul(pa, pb))])

\* buildMutualInformationMatrix
buildMutualInformationMatrix(fields, rows) ==
  [i \in 1..Len(fields) |->
    [j \in 1..Len(fields) |->
      IF i = j THEN <<>> ELSE mutualInformation(fields[i], fields[j], rows)]]

-----------------------------------------------------------------------------
(* Result envelopes *)

Plotly(data, layout) == [type |-> "plotly", data |-> data, layout |-> layout]
Calculation(data) == [type |-> "calculation", data |-> data, layout |-> <<>>]
\* a TypeError thrown out of the call
Threw == [type |-> "TypeError", data |-> <<>>, layout |-> <<>>]
\* { type: "calculation", data: { Error: msg } }
ErrorResult(msg) == Calculation(<<[key |-> "Error", val |-> Str(msg)]>>)
\* a computed number in an envelope
CNum(r) == [k |-> "number", r |-> r]
\* what a call of performAnalysis leaves: its result and the global Object
Outcome(result, rlm) == [result |-> result, realm |-> rlm]
\* the realm a page starts with: nothing written to Object
PristineRealm == <<>>

-----------------------------------------------------------------------------
(* performAnalysis: the cases that count and sum *)

\* the columns of the model's datasets, in the order a row lists them
FieldOrder == <<"g", "d", "v", "x", "y", "z">>

\* Object.keys(row)
Keys(row) == SelectSeq(FieldOrder, LAMBDA f : f \in DOMAIN row)

\* data[0]?.[f]
FirstRowValue(f, data) == IF Len(data) > 0 THEN Get(data[1], f) ELSE Undefined

\* the head of performAnalysis
AllFields(data) == IF Len(data) > 0 THEN Keys(data[1]) ELSE <<>>
NumericFieldsAll(data) == SelectSeq(AllFields(data), LAMBDA f : isMostlyNumeric(f, data))
DateFieldsAll(data) == SelectSeq(AllFields(data), LAMBDA f : isMostlyDateLike(f, data))

\* entries.sort(([, a], [, b]) => b - a) over entries [key, val]: descending and
\* stable when the values are numbers.  b - a is NaN for any other value; the
\* model's data leaves such a value alone in its dictionary, where there is
\* nothing to order
SortDesc(entries) ==
  IF \A i \in 1..Len(entries) : IsNumber(entries[i].val)
  THEN MapSeq(StableSort(MapSeq(entries, LAMBDA e : [key |-> R(-e.val.n), val |-> e])),
              LAMBDA e : e.val)
  ELSE entries

EntryKeys(entries) == MapSeq(entries, LAMBDA e : e.key)
EntryVals(entries) == MapSeq(entries, LAMBDA e : e.val)

\* case "Calculated Measure (KPI)" (the selected fields are distinct)
KpiCase(fields, data) ==
  LET numericFields == SelectSeq(fields, LAMBDA f : IsNumber(FirstRowValue(f, data)))
      NumsOf(f) == SelectSeq(MapSeq(data, LAMBDA r : Get(r, f)), IsNumber)
      sums(f) == SumSeq(MapSeq(NumsOf(f), LAMBDA v : v.n))
      counts(f) == Len(NumsOf(f))
  IN Calculation(Flatten(MapSeq(numericFields, LAMBDA f :
       << [key |-> f \o "_avg",
           val |-> CNum(IF counts(f) > 0 THEN Rat(sums(f), counts(f)) ELSE R(0))],
          [key |-> f \o "_sum", val |-> CNum(R(sums(f)))],
          [key |-> f \o "_count", val |-> CNum(R(counts(f)))] >>)))

\* the bars of a Ranking chart
RankingTop == 10

RECURSIVE RankingFold(_, _, _)
\* the values dictionary of case "Ranking" after the first i rows
RankingFold(field, data, i) ==
  IF i = 0 THEN <<>>
  ELSE LET values == RankingFold(field, data, i - 1)
           value == Get(data[i], field)
           key == IF IsFalsy(value) THEN "Unknown" ELSE JsString(value)
       IN SetProp(values, key,
                  OrZeroPlus(GetProp(values, key), IF IsNumber(value) THEN value.n ELSE 1))

\* case "Ranking"
RankingCase(fields, data) ==
  LET field == At(fields, 0)
      sorted == Take(SortDesc(OwnEntries(RankingFold(field, data, Len(data)))), RankingTop)
  IN Plotly(<<[type |-> "bar", x |-> EntryVals(sorted), y |-> EntryKeys(sorted),
               orientation |-> "h"]>>,
            [title |-> "Ranking: " \o field, xaxis |-> "Value"])

\* the groups and items a grouped ranking shows
GroupCap == 15
ItemCap == 10

RECURSIVE GroupedFold(_, _, _, _, _)
\* the grouped dictionary of case "Ranking (grouped)" after the first i rows,
\* and the global Object: grouped[group] ||= {} leaves an inherited
\* grouped["constructor"] alone, and the count is then written to Object
GroupedFold(groupField, valueField, data, i, rlm) ==
  IF i = 0 THEN [grouped |-> <<>>, realm |-> rlm]
  ELSE LET st == GroupedFold(groupField, valueField, data, i - 1, rlm)
           gv == Get(data[i], groupField)
           iv == Get(data[i], valueField)
           group == IF IsNullish(gv) THEN "Unknown" ELSE JsString(gv)
           item == IF valueField # NoField
                   THEN (IF IsNullish(iv) THEN "Unknown" ELSE JsString(iv))
                   ELSE "Count"
           inner == IF HasOwn(st.grouped, group) THEN OwnVal(st.grouped, group) ELSE <<>>
       IN IF ~HasOwn(st.grouped, group) /\ group = "constructor"
          THEN [st EXCEPT !.realm =
                  SetProp(@, item, OrZeroPlus(GetObjectProp(st.realm, item), 1))]
          ELSE [st EXCEPT !.grouped =
                  SetProp(@, group, SetProp(inner, item, OrZeroPlus(GetProp(inner, item), 1)))]

\* case "Ranking (grouped)"
RankingGroupedCase(fields, data, rlm) ==
  LET groupField == At(fields, 0)
      valueField == At(fields, 1)
      st == GroupedFold(groupField, valueField, data, Len(data), rlm)
      groups == Take(OwnEntries(st.grouped), GroupCap)
      items == Take(Unique(Flatten(MapSeq(groups, LAMBDA g : EntryKeys(OwnEntries(g.val))))),
                    ItemCap)
      CountOf(g, item) == LET c == GetProp(g.val, item) IN IF IsNullish(c) THEN Num(0) ELSE c
  IN IF ~ObjectKeysCallable(st.realm) THEN Outcome(Threw, st.realm)
     ELSE Outcome(
            Plotly(MapSeq(items, LAMBDA item :
                     [type |-> "bar", name |-> item, x |-> EntryKeys(groups),
                      y |-> MapSeq(groups, LAMBDA g : CountOf(g, item))]),
                   [title |-> "Ranking (grouped): " \o groupField
                                \o (IF valueField # NoField THEN " x " \o valueField ELSE ""),
                    barmode |-> "group", yaxis |-> "Count"]),
            st.realm)

\* the bars of a Breakdown before "Other", and of a geo breakdown
BreakdownTop == 25
GeoTop == 30

RECURSIVE BreakdownFold(_, _, _)
BreakdownFold(field, data, i) ==
  IF i = 0 THEN <<>>
  ELSE LET breakdown == BreakdownFold(field, data, i - 1)
           value == Get(data[i], field)
           key == IF IsFalsy(value) THEN "Unknown" ELSE JsString(value)
       IN SetProp(breakdown, key, OrZeroPlus(GetProp(breakdown, key), 1))

\* case "Breakdown"
BreakdownCase(fields, data) ==
  LET field == At(fields, 0)
      entries == SortDesc(OwnEntries(BreakdownFold(field, data, Len(data))))
      top == Take(entries, BreakdownTop)
      rest == Drop(entries, Min(BreakdownTop, Len(entries)))
      other == SumSeq(MapSeq(rest, LAMBDA e : e.val.n))
  IN Plotly(<<[type |-> "bar",
               x |-> EntryKeys(top) \o (IF other > 0 THEN <<"Other">> ELSE <<>>),
               y |-> EntryVals(top) \o (IF other > 0 THEN <<Num(other)>> ELSE <<>>)]>>,
            [title |-> "Breakdown: " \o field, yaxis |-> "Count"])

RECURSIVE GeoFold(_, _, _, _)
GeoFold(geoField, valueField, data, i) ==
  IF i = 0 THEN <<>>
  ELSE LET counts == GeoFold(geoField, valueField, data, i - 1)
           gv == Get(data[i], geoField)
           key == IF IsNullish(gv) THEN "Unknown" ELSE JsString(gv)
           v == IF valueField # NoField /\ IsNumber(Get(data[i], valueField))
                THEN Get(data[i], valueField).n ELSE 1
       IN SetProp(counts, key, OrZeroPlus(GetProp(counts, key), v))

\* case "Breakdown (geo spatial)"
GeoCase(fields, data) ==
  LET geoField == At(fields, 0)
      valueField == At(fields, 1)
      entries == Take(SortDesc(OwnEntries(GeoFold(geoField, valueField, data, Len(data)))), GeoTop)
  IN Plotly(<<[type |-> "bar", x |-> EntryKeys(entries), y |-> EntryVals(entries)]>>,
            [title |-> "Geo Breakdown: " \o geoField
                         \o (IF valueField # NoField THEN " (sum " \o valueField \o ")" ELSE ""),
             yaxis |-> IF valueField # NoField THEN "Sum" ELSE "Count"])

\* the fields an Overview lists
OverviewCap == 5

\* case "Overview"
OverviewCase(data) ==
  LET UniqueOf(f) ==
        Len(Unique(MapSeq(data, LAMBDA r : IF IsFalsy(Get(r, f)) THEN "null"
                                           ELSE JsString(Get(r, f)))))
      fieldCounts == MapSeq(AllFields(data), LAMBDA f : [key |-> f, val |-> UniqueOf(f)])
  IN Calculation(<<[key |-> "Total Records", val |-> CNum(R(Len(data)))],
                   [key |-> "Unique Fields", val |-> CNum(R(Len(fieldCounts)))]>>
                 \o MapSeq(Take(fieldCounts, OverviewCap),
                           LAMBDA e : [key |-> e.key \o " (unique)", val |-> CNum(R(e.val))]))

-----------------------------------------------------------------------------
(* performAnalysis: the time-based cases *)

\* fields.find((f) => isMostlyDateLike(f, data)) ?? dateFieldsAll[0]
ResolveTimeField(fields, data) ==
  FindOr(fields, LAMBDA f : isMostlyDateLike(f, data), At(DateFieldsAll(data), 0))

\* fields.find((f) => isMostlyNumeric(f, data)) ?? numericFieldsAll[0]
ResolveValueField(fields, data) ==
  FindOr(fields, LAMBDA f : isMostlyNumeric(f, data), At(NumericFieldsAll(data), 0))

\* the points of Trend Over Time and Year to Date: a row whose time converts,
\* with its number or 1
CountPoints(timeField, valueField, data) ==
  LET kept == SelectSeq(data, LAMBDA r : toEpochMs(Get(r, timeField)).some)
  IN SortByT(MapSeq(kept, LAMBDA r :
       [t |-> toEpochMs(Get(r, timeField)).t,
        y |-> IF valueField # NoField /\ IsNumber(Get(r, valueField))
              THEN Get(r, valueField).n ELSE 1]))

Ts(pts) == MapSeq(pts, LAMBDA p : p.t)
Ys(pts) == MapSeq(pts, LAMBDA p : p.y)
RYs(pts) == MapSeq(pts, LAMBDA p : R(p.y))

\* case "Trend Over Time"
TrendOverTimeCase(fields, data) ==
  LET timeField == IF At(fields, 0) # NoField THEN At(fields, 0) ELSE At(DateFieldsAll(data), 0)
      valueField == IF Len(fields) > 1 THEN At(fields, 1) ELSE At(NumericFieldsAll(data), 0)
      buckets == bucketByDay(CountPoints(timeField, valueField, data))
  IN IF timeField = NoField THEN ErrorResult("No time field detected")
     ELSE Plotly(<<[type |-> "scatter", mode |-> "lines+markers",
                    x |-> Ts(buckets), y |-> Ys(buckets)]>>,
                 [title |-> "Trend Over Time: "
                              \o (IF valueField # NoField THEN valueField ELSE "Count")
                              \o " by " \o timeField,
                  xaxis |-> timeField,
                  yaxis |-> IF valueField # NoField THEN "Value" ELSE "Count"])

\* the days (since 1970-01-01) of 1 January of year y
DaysToYear(y) ==
  365 * (y - 1970) + ((y - 1969) \div 4) - ((y - 1901) \div 100) + ((y - 1601) \div 400)

\* new Date(new Date(t).getFullYear(), 0, 1).getTime(), the local zone being UTC
YearStart(t) ==
  LET y0 == 1970 + (t \div (DayLength * 365))
      y == CHOOSE y \in (y0 - 2)..(y0 + 2) :
             DaysToYear(y) * DayLength <= t /\ t < DaysToYear(y + 1) * DayLength
  IN DaysToYear(y) * DayLength

RECURSIVE Cumulative(_)
\* the running sums of ys
Cumulative(ys) ==
  IF ys = <<>> THEN <<>>
  ELSE Append(Cumulative(SubSeq(ys, 1, Len(ys) - 1)), SumSeq(ys))

\* the body of case "Year to Date" once the fields are resolved: with no point
\* yearStart comes from Date.now() and nothing is compared with it
YearToDateChart(timeField, valueField, pts) ==
  LET shown == SelectSeq(pts, LAMBDA p : ~(p.t < YearStart(pts[1].t)))
  IN Plotly(<<[type |-> "scatter", mode |-> "lines",
               x |-> Ts(shown), y |-> Cumulative(Ys(shown))]>>,
            [title |-> "Year to Date: cumulative "
                         \o (IF valueField # NoField THEN valueField ELSE "Count"),
             xaxis |-> timeField, yaxis |-> "Cumulative"])

YearToDateOn(timeField, valueField, data) ==
  IF timeField = NoField THEN ErrorResult("No date field detected")
  ELSE YearToDateChart(timeField, valueField, CountPoints(timeField, valueField, data))

\* case "Year to Date"
YearToDateCase(fields, data) ==
  YearToDateOn(ResolveTimeField(fields, data), ResolveValueField(fields, data), data)

\* a point-count check that is off by one
TooFewOffByOne(pts, n) == Len(pts) < n - 1

\* pts.length < n: the series is too short for the analysis
TooFew(pts, n) == Len(pts) < n

NeedFields == ErrorResult("Need a date-like field and a numeric field")

\* a line trace with a name
Line(name, x, y) == [type |-> "scatter", mode |-> "lines", name |-> name, x |-> x, y |-> y]

\* xs.map(() => v)
Flat(xs, v) == [i \in 1..Len(xs) |-> v]

\* the traces of a control chart from the series, its mean and its deviation
ControlTraces(type, valueField, xs, ys, mean, std) ==
  <<Line(valueField, xs, ys),
    Line("Mean", xs, Flat(xs, mean)),
    Line("UCL (3s)", xs, Flat(xs, Surd(mean, R(3), std))),
    Line("LCL (3s)", xs, Flat(xs, Surd(mean, R(-3), std)))>>
  \o (IF type = "Process Control (rolling mean)"
      THEN <<Line("Rolling mean", xs,
                  movingAverage(ys, Min(20, Max(5, Len(ys) \div 10))))>>
      ELSE <<>>)

ControlChart(type, timeField, valueField, xs, ys) ==
  Plotly(ControlTraces(type, valueField, xs, ys, MeanOf(ys), stddev(ys)),
         [title |-> type \o ": " \o valueField, xaxis |-> timeField, yaxis |-> valueField])

ProcessControlOf(type, timeField, valueField, pts) ==
  IF TooFew(pts, 2) THEN ErrorResult("Not enough time series points")
  ELSE ControlChart(type, timeField, valueField, Ts(pts), RYs(pts))

ProcessControlOn(type, timeField, valueField, data) ==
  IF timeField = NoField \/ valueField = NoField THEN NeedFields
  ELSE ProcessControlOf(type, timeField, valueField,
                        extractTimeSeries(timeField, valueField, data))

\* case "Process Control (mean)" / "Process Control (rolling mean)"
ProcessControlCase(type, fields, data) ==
  ProcessControlOn(type, ResolveTimeField(fields, data), ResolveValueField(fields, data), data)

\* the trend variant with a limit of 4 deviations
AnomaliesBeyondFour(type, pts, mu, sd) ==
  SelectSeq(pts, LAMBDA p :
    IF type = "Anomaly (spike)" THEN GtSurd(R(p.y), Surd(mu, R(3), sd))
    ELSE GtSurd(RAbs(RSub(R(p.y), mu)), Surd(R(0), R(4), sd)))

\* the points an anomaly chart marks: above mu + 3 sd for a spike, further than
\* 2 sd from mu for a trend
Anomalies(type, pts, mu, sd) ==
  SelectSeq(pts, LAMBDA p :
    IF type = "Anomaly (spike)" THEN GtSurd(R(p.y), Surd(mu, R(3), sd))
    ELSE GtSurd(RAbs(RSub(R(p.y), mu)), Surd(R(0), R(2), sd)))

AnomalyTraces(valueField, pts, anomalies, thresh) ==
  <<Line(valueField, Ts(pts), RYs(pts)),
    [type |-> "scatter", mode |-> "markers", name |-> "Anomaly",
     x |-> Ts(anomalies), y |-> RYs(anomalies)],
    Line("Threshold", Ts(pts), Flat(pts, thresh))>>

AnomalyChart(type, timeField, valueField, pts, mu, sd) ==
  Plotly(AnomalyTraces(valueField, pts, Anomalies(type, pts, mu, sd), Surd(mu, R(3), sd)),
         [title |-> type \o ": " \o valueField, xaxis |-> timeField, yaxis |-> valueField])

AnomalyOf(type, timeField, valueField, pts) ==
  IF TooFew(pts, 5) THEN ErrorResult("Not enough points")
  ELSE AnomalyChart(type, timeField, valueField, pts, MeanOf(RYs(pts)), stddev(RYs(pts)))

AnomalyOn(type, timeField, valueField, data) ==
  IF timeField = NoField \/ valueField = NoField THEN NeedFields
  ELSE AnomalyOf(type, timeField, valueField, extractTimeSeries(timeField, valueField, data))

\* case "Anomaly (spike)" / "Anomaly (trend)"
AnomalyCase(type, fields, data) ==
  AnomalyOn(type, ResolveTimeField(fields, data), ResolveValueField(fields, data), data)

\* the bars and the annotation of a period chart; the annotation text is written
\* from delta and pct
PeriodChart(type, valueField, sumPrev, sumCur) ==
  Plotly(<<[type |-> "bar", x |-> <<"Previous", "Current">>, y |-> <<sumPrev, sumCur>>]>>,
         [title |-> type \o ": " \o valueField,
          yaxis |-> "Sum(" \o valueField \o ")",
          annotations |-> [delta |-> sumCur - sumPrev,
                           pct |-> IF sumPrev # 0 THEN <<Rat(sumCur - sumPrev, sumPrev)>>
                                   ELSE <<>>]])

PeriodSums(type, valueField, split) ==
  PeriodChart(type, valueField, SumSeq(Ys(split.previous)), SumSeq(Ys(split.current)))

PeriodOf(type, valueField, pts) ==
  IF TooFew(pts, 2) THEN ErrorResult("Not enough points")
  ELSE PeriodSums(type, valueField, splitLastPeriod(pts))

PeriodOn(type, timeField, valueField, data) ==
  IF timeField = NoField \/ valueField = NoField THEN NeedFields
  ELSE PeriodOf(type, valueField, extractTimeSeries(timeField, valueField, data))

\* case "Period over Period" and the three "Period ..." variants
PeriodCase(type, fields, data) ==
  PeriodOn(type, ResolveTimeField(fields, data), ResolveValueField(fields, data), data)

\* the points a forecast adds
forecastN == 10

\* fx: the times lastT + step * i
ForecastTimes(lastT, step) == [i \in 1..forecastN |-> lastT + step * i]
\* fy: a + b * t
ForecastValues(fit, fx) == [i \in 1..Len(fx) |-> RAdd(fit.a, RMul(fit.b, R(fx[i])))]

\* step: the difference of the last two times
LastStep(xs) == IF Len(xs) >= 2 THEN xs[Len(xs)] - xs[Len(xs) - 1] ELSE DayLength

ForecastTrace(fit, fx) == Line("Forecast", fx, ForecastValues(fit, fx))

ForecastChart(timeField, valueField, xs, ys) ==
  Plotly(<<Line("Actual", xs, ys),
           ForecastTrace(linearRegression(MapSeq(xs, R), ys),
                         ForecastTimes(xs[Len(xs)], LastStep(xs)))>>,
         [title |-> "Trend with Forecast: " \o valueField, xaxis |-> timeField,
          yaxis |-> valueField])

ForecastOf(timeField, valueField, pts) ==
  IF TooFew(pts, 5) THEN ErrorResult("Not enough points")
  ELSE ForecastChart(timeField, valueField, Ts(pts), RYs(pts))

ForecastOn(timeField, valueField, data) ==
  IF timeField = NoField \/ valueField = NoField THEN NeedFields
  ELSE ForecastOf(timeField, valueField, extractTimeSeries(timeField, valueField, data))

\* case "Trend with Forecast"
TrendWithForecastCase(fields, data) ==
  ForecastOn(ResolveTimeField(fields, data), ResolveValueField(fields, data), data)

\* resid: v - trend[i]
Residuals(ys, trend) == [i \in 1..Len(ys) |-> RSub(ys[i], trend[i])]

DecompositionTraces(xs, ys, trend) ==
  <<Line("Observed", xs, ys), Line("Trend (MA)", xs, trend),
    Line("Residual", xs, Residuals(ys, trend))>>

DecompositionChart(timeField, valueField, xs, ys) ==
  Plotly(DecompositionTraces(xs, ys, movingAverage(ys, Min(30, Max(7, Len(ys) \div 8)))),
         [title |-> "Time Series Decomposition: " \o valueField, xaxis |-> timeField])

DecompositionOf(timeField, valueField, pts) ==
  DecompositionChart(timeField, valueField, Ts(pts), RYs(pts))

\* a decomposition that does not check its fields
DecompositionUnchecked(timeField, valueField, data) ==
  DecompositionOf(timeField, valueField, extractTimeSeries(timeField, valueField, data))

DecompositionOn(timeField, valueField, data) ==
  IF timeField = NoField \/ valueField = NoField THEN NeedFields
  ELSE DecompositionOf(timeField, valueField,
                       extractTimeSeries(timeField, valueField, data))

\* case "Time Series Decomposition"
DecompositionCase(fields, data) ==
  DecompositionOn(ResolveTimeField(fields, data), ResolveValueField(fields, data), data)

-----------------------------------------------------------------------------
(* performAnalysis: comparison, correlation, clustering and the default *)

\* the bars of a Comparison, and the fields of its fallback
ComparisonTop == 25
MeansCap == 8

RECURSIVE ComparisonFold(_, _, _, _, _)
\* the agg dictionary of case "Comparison" after the first i rows, and the
\* global Object: agg[cat] ||= {...} leaves an inherited agg["constructor"]
\* alone, and sum and n are then added to Object.sum and Object.n
ComparisonFold(categoryField, valueField, data, i, rlm) ==
  IF i = 0 THEN [agg |-> <<>>, realm |-> rlm]
  ELSE LET st == ComparisonFold(categoryField, valueField, data, i - 1, rlm)
           cv == Get(data[i], categoryField)
           cat == IF IsNullish(cv) THEN "Unknown" ELSE JsString(cv)
           v == Get(data[i], valueField)
           old == IF HasOwn(st.agg, cat) THEN OwnVal(st.agg, cat) ELSE [sum |-> 0, n |-> 0]
       IN IF ~IsNumber(v) THEN st
          ELSE IF ~HasOwn(st.agg, cat) /\ cat = "constructor"
          THEN [st EXCEPT !.realm =
                  SetProp(SetProp(@, "sum", JsPlus(GetObjectProp(@, "sum"), v.n)),
                          "n", JsPlus(GetObjectProp(@, "n"), 1))]
          ELSE [st EXCEPT !.agg = SetProp(@, cat, [sum |-> old.sum + v.n, n |-> old.n + 1])]

\* case "Comparison"
ComparisonCase(fields, data, rlm) ==
  LET categoryField == At(fields, 0)
      valueField == At(fields, 1)
      st == ComparisonFold(categoryField, valueField, data, Len(data), rlm)
      avgs == MapSeq(OwnEntries(st.agg), LAMBDA e :
                [key |-> e.key,
                 val |-> IF e.val.n # 0 THEN Rat(e.val.sum, e.val.n) ELSE R(0)])
      entries == Take(MapSeq(StableSort(MapSeq(avgs, LAMBDA e :
                                [key |-> RSub(R(0), e.val), val |-> e])),
                             LAMBDA e : e.val),
                      ComparisonTop)
      nums == Take(SelectSeq(fields, LAMBDA f : isMostlyNumeric(f, data)), MeansCap)
      candidates == IF Len(nums) > 0 THEN nums ELSE Take(NumericFieldsAll(data), MeansCap)
  IN IF categoryField # NoField /\ valueField # NoField
        /\ IsNumber(FirstRowValue(valueField, data))
     THEN Outcome(Plotly(<<[type |-> "bar", x |-> EntryKeys(entries),
                            y |-> EntryVals(entries)]>>,
                         [title |-> "Comparison: avg(" \o valueField \o ") by " \o categoryField,
                          yaxis |-> "avg(" \o valueField \o ")"]),
                  st.realm)
     ELSE Outcome(Plotly(<<[type |-> "bar", x |-> candidates,
                            y |-> MapSeq(candidates, LAMBDA f : meanOfField(f, data))]>>,
                         [title |-> "Comparison (means)", yaxis |-> "Mean"]),
                  rlm)

\* |corr| of a correlation
AbsCorr(r) == Corr(RAbs(r.num), r.den2)

\* scores.sort(([, a], [, b]) => b - a) over entries [key, val] of |corr|: the
\* order of |corr| is the order of its square
SortScores(scores) ==
  MapSeq(StableSort(MapSeq(scores, LAMBDA e :
           [key |-> RSub(R(0), RDiv(RSq(e.val.num), e.val.den2)), val |-> e])),
         LAMBDA e : e.val)

ImportanceChart(target, scores) ==
  Plotly(<<[type |-> "bar", x |-> EntryKeys(scores), y |-> EntryVals(scores)]>>,
         [title |-> "Relative Importance vs " \o target \o " (|corr|)", yaxis |-> "|corr|"])

ImportanceOf(features, target, data) ==
  ImportanceChart(target,
    SortScores(MapSeq(features, LAMBDA f :
                 [key |-> f, val |-> AbsCorr(pearson(f, target, data))])))

ImportanceOn(nums, data) ==
  IF Len(nums) < 2
  THEN ErrorResult("Select at least 2 numeric fields (features + target)")
  ELSE ImportanceOf(SubSeq(nums, 1, Len(nums) - 1), Last(nums), data)

\* case "Relative Importance"
RelativeImportanceCase(fields, data) ==
  ImportanceOn(SelectSeq(fields, LAMBDA f : isMostlyNumeric(f, data)), data)

\* case "Correlation"
CorrelationCase(fields, data) ==
  LET numericFields == SelectSeq(fields, LAMBDA f : IsNumber(FirstRowValue(f, data)))
  IN IF Len(numericFields) < 2 THEN ErrorResult("Need at least 2 numeric fields")
     ELSE Plotly(<<[type |-> "heatmap", x |-> numericFields, y |-> numericFields,
                    z |-> buildCorrelationMatrix(numericFields, data)]>>,
                 [title |-> "Correlation (Pearson)"])

\* the fields of a mutual-information matrix
MiFieldCap == 6

\* case "Mutual Information"
MutualInformationCase(fields, data) ==
  LET chosen == Take(fields, MiFieldCap)
      usable == IF Len(chosen) > 0 THEN chosen ELSE Take(AllFields(data), MiFieldCap)
  IN IF Len(usable) < 2 THEN ErrorResult("Need at least 2 fields")
     ELSE Plotly(<<[type |-> "heatmap", x |-> usable, y |-> usable,
                    z |-> buildMutualInformationMatrix(usable, data)]>>,
                 [title |-> "Mutual Information (approx.)"])

\* the clusters, iterations and sampled points of a clustering
ClusterK == 3
ClusterIters == 20
ClusterSampleCap == 1500

\* the points of every row with two numbers
EveryClusterPoint(xField, yField, data) ==
  MapSeq(BothNumbers(xField, yField, data),
         LAMBDA r : [x |-> Get(r, xField).n, y |-> Get(r, yField).n])

\* the points of a clustering: the first ClusterSampleCap rows with two numbers
ClusterPoints(xField, yField, data) ==
  MapSeq(Take(BothNumbers(xField, yField, data), ClusterSampleCap),
         LAMBDA r : [x |-> Get(r, xField).n, y |-> Get(r, yField).n])

\* pts.filter((_, idx) => labels[idx] === c + 1): the labels read as 1-based
MembersOneBased(pts, labels, c) ==
  MapSeq(SelectSeq([i \in 1..Len(pts) |-> [p |-> pts[i], l |-> labels[i]]],
                   LAMBDA e : e.l = c + 1),
         LAMBDA e : e.p)

\* pts.filter((_, idx) => labels[idx] === c)
Members(pts, labels, c) ==
  MapSeq(SelectSeq([i \in 1..Len(pts) |-> [p |-> pts[i], l |-> labels[i]]],
                   LAMBDA e : e.l = c),
         LAMBDA e : e.p)

ClusterTraces(pts, labels) ==
  [c \in 1..ClusterK |->
    [type |-> "scatter", mode |-> "markers", name |-> "Cluster " \o ToString(c),
     x |-> MapSeq(Members(pts, labels, c - 1), LAMBDA q : q.x),
     y |-> MapSeq(Members(pts, labels, c - 1), LAMBDA q : q.y)]]

ClusterChart(xField, yField, pts) ==
  Plotly(ClusterTraces(pts, kmeans2D(pts, ClusterK, ClusterIters).labels),
         [title |-> "k-means (k=" \o ToString(ClusterK) \o "): " \o xField \o " vs " \o yField,
          xaxis |-> xField, yaxis |-> yField])

ClusteringOn(candidates, data) ==
  IF Len(candidates) < 2 THEN ErrorResult("Need at least 2 numeric fields")
  ELSE ClusterChart(candidates[1], candidates[2],
                    ClusterPoints(candidates[1], candidates[2], data))

\* the candidate fields: the selected numeric fields, else the detected ones
ClusterCandidates(nums, data) == Take(IF Len(nums) > 0 THEN nums ELSE NumericFieldsAll(data), 3)

\* case "Clustering (k-means)"
ClusteringCase(fields, data) ==
  ClusteringOn(ClusterCandidates(SelectSeq(fields, LAMBDA f : isMostlyNumeric(f, data)), data),
               data)

\* the default case: a histogram of the first field, for a type without a case
DefaultCase(type, fields, data) ==
  LET field == At(fields, 0)
  IN Plotly(<<[type |-> "histogram",
               x |-> IF isMostlyNumeric(field, data)
                     THEN SelectSeq(MapSeq(data, LAMBDA r : Get(r, field)), IsNumber)
                     ELSE MapSeq(data, LAMBDA r :
                            Str(IF IsNullish(Get(r, field)) THEN "Unknown"
                                ELSE JsString(Get(r, field))))]>>,
            [title |-> type \o ": " \o (IF field # NoField THEN field ELSE "field"),
             yaxis |-> "Count"])

-----------------------------------------------------------------------------
(* performAnalysis *)

\* the switch of performAnalysis for a call that got past its head
AnalysisSwitch(type, fields, data, rlm) ==
  CASE type = "Calculated Measure (KPI)" -> Outcome(KpiCase(fields, data), rlm)
    [] type = "Ranking" -> Outcome(RankingCase(fields, data), rlm)
    [] type = "Ranking (grouped)" -> RankingGroupedCase(fields, data, rlm)
    [] type = "Breakdown" -> Outcome(BreakdownCase(fields, data), rlm)
    [] type = "Breakdown (geo spatial)" -> Outcome(GeoCase(fields, data), rlm)
    [] type = "Overview" ->
         Outcome(IF ObjectKeysCallable(rlm) THEN OverviewCase(data) ELSE Threw, rlm)
    [] type = "Trend Over Time" -> Outcome(TrendOverTimeCase(fields, data), rlm)
    [] type = "Comparison" -> ComparisonCase(fields, data, rlm)
    [] type = "Relative Importance" -> Outcome(RelativeImportanceCase(fields, data), rlm)
    [] type = "Year to Date" -> Outcome(YearToDateCase(fields, data), rlm)
    [] type \in {"Process Control (mean)", "Process Control (rolling mean)"} ->
         Outcome(ProcessControlCase(type, fields, data), rlm)
    [] type = "Correlation" -> Outcome(CorrelationCase(fields, data), rlm)
    [] type = "Mutual Information" -> Outcome(MutualInformationCase(fields, data), rlm)
    [] type = "Clustering (k-means)" -> Outcome(ClusteringCase(fields, data), rlm)
    [] type \in {"Anomaly (spike)", "Anomaly (trend)"} ->
         Outcome(AnomalyCase(type, fields, data), rlm)
    [] type \in {"Period over Period", "Period over Period (selected)", "Period Changes",
                 "Period Changes (detailed)"} ->
         Outcome(PeriodCase(type, fields, data), rlm)
    [] type = "Trend with Forecast" -> Outcome(TrendWithForecastCase(fields, data), rlm)
    [] type = "Time Series Decomposition" -> Outcome(DecompositionCase(fields, data), rlm)
    [] OTHER -> Outcome(DefaultCase(type, fields, data), rlm)

\* performAnalysis(type, fields, data) run while the global Object is rlm: its
\* result, or Threw, and the global Object it leaves.  The head calls
\* Object.keys(data[0]) for a dataset with rows.
performAnalysis(type, fields, data, rlm) ==
  IF Len(data) > 0 /\ ~ObjectKeysCallable(rlm) THEN Outcome(Threw, rlm)
  ELSE AnalysisSwitch(type, fields, data, rlm)

-----------------------------------------------------------------------------
(* The Analysis component *)

\* the analyses kept on the page, the clock, and the count a page writes to one
\* property of Object
MaxAnalyses == 2
MaxClock == 2
MaxRealmCount == 2

\* surveyData === null
NoSurvey == [some |-> FALSE, variablesList |-> <<>>, data |-> <<>>]
\* the survey of a response: its variablesList and data
Survey(variablesList, data) == [some |-> TRUE, variablesList |-> variablesList, data |-> data]

NoCall == [pending |-> FALSE, type |-> "", fields |-> <<>>]
NoResult == [type |-> "none", data |-> <<>>, layout |-> <<>>]
\* executeAnalysis has not been called
NotExecuted == [outcome |-> "none", ran |-> FALSE, type |-> "", count |-> 0]
\* executeAnalysis was called with this type and this many fields selected
Executed(outcome, ran) ==
  [outcome |-> outcome, ran |-> ran, type |-> selectedAnalysisType,
   count |-> Len(selectedFields)]

\* no count written to Object has reached MaxRealmCount
RealmBounded(rlm) ==
  \A i \in 1..Len(rlm) : IsNumber(rlm[i].val) => rlm[i].val.n < MaxRealmCount

\* the page past its loading and error screens
Shown == ~isLoading /\ ~error /\ surveyData.some

\* canExecuteAnalysis
canExecuteAnalysis ==
  /\ selectedAnalysisType # ""
  /\ Len(selectedFields) >= ANALYSIS_REQUIREMENTS(selectedAnalysisType).min
  /\ Len(selectedFields) <= ANALYSIS_REQUIREMENTS(selectedAnalysisType).max

\* fetchSurveyData with an ok response: setSurveyData(data), setIsLoading(false)
FetchOk(d) ==
  /\ isLoading
  /\ surveyData' = d
  /\ isLoading' = FALSE
  /\ UNCHANGED <<error, selectedAnalysisType, selectedFields, analyses, isExecuting, now,
                 lastExec, call, ret, realm>>

\* no surveyId, a response that is not ok, or a rejected fetch: setError(...)
FetchFail ==
  /\ isLoading
  /\ error' = TRUE
  /\ isLoading' = FALSE
  /\ UNCHANGED <<surveyData, selectedAnalysisType, selectedFields, analyses, isExecuting,
                 now, lastExec, call, ret, realm>>

\* onChange of the type select
SelectType(t) ==
  /\ Shown
  /\ selectedAnalysisType' = t
  /\ selectedFields' = <<>>
  /\ UNCHANGED <<surveyData, isLoading, error, analyses, isExecuting, now, lastExec, call,
                 ret, realm>>

\* a toggle that adds a field without looking at requirements.max
ToggleUncapped(field) ==
  /\ Shown
  /\ selectedFields' =
       IF selectedAnalysisType = "" THEN selectedFields
       ELSE IF Contains(selectedFields, field)
       THEN SelectSeq(selectedFields, LAMBDA f : f # field)
       ELSE Append(selectedFields, field)
  /\ UNCHANGED <<surveyData, isLoading, error, selectedAnalysisType, analyses, isExecuting,
                 now, lastExec, call, ret, realm>>

\* handleFieldToggle
handleFieldToggle(field) ==
  /\ Shown
  /\ selectedFields' =
       IF selectedAnalysisType = "" THEN selectedFields
       ELSE IF Contains(selectedFields, field)
       THEN SelectSeq(selectedFields, LAMBDA f : f # field)
       ELSE IF Len(selectedFields) < ANALYSIS_REQUIREMENTS(selectedAnalysisType).max
       THEN Append(selectedFields, field)
       ELSE selectedFields
  /\ UNCHANGED <<surveyData, isLoading, error, selectedAnalysisType, analyses, isExecuting,
                 now, lastExec, call, ret, realm>>

\* onClick of the remove button of a selected-field chip
RemoveChip(field) ==
  /\ Shown
  /\ selectedAnalysisType # ""
  /\ Contains(selectedFields, field)
  /\ selectedFields' = SelectSeq(selectedFields, LAMBDA f : f # field)
  /\ UNCHANGED <<surveyData, isLoading, error, selectedAnalysisType, analyses, isExecuting,
                 now, lastExec, call, ret, realm>>

\* executeAnalysis: the early return, else the try block with its catch.  It
\* awaits nothing, so isExecuting is false again when it returns.
executeAnalysis ==
  /\ Shown
  /\ Len(analyses) < MaxAnalyses
  /\ RealmBounded(realm)
  /\ isExecuting' = FALSE
  /\ IF selectedAnalysisType = "" \/ ~canExecuteAnalysis \/ ~surveyData.some
     THEN /\ lastExec' = Executed("rejected", FALSE)
          /\ UNCHANGED <<analyses, selectedAnalysisType, selectedFields, realm>>
     ELSE LET out == performAnalysis(selectedAnalysisType, selectedFields, surveyData.data,
                                     realm)
          IN /\ realm' = out.realm
             /\ IF out.result.type = "TypeError"
                THEN /\ lastExec' = Executed("failed", TRUE)
                     /\ UNCHANGED <<analyses, selectedAnalysisType, selectedFields>>
                ELSE /\ lastExec' = Executed("recorded", TRUE)
                     /\ analyses' = Append(analyses,
                                           [id |-> ToString(now),
                                            type |-> selectedAnalysisType,
                                            fields |-> selectedFields,
                                            result |-> out.result])
                     /\ selectedAnalysisType' = ""
                     /\ selectedFields' = <<>>
  /\ UNCHANGED <<surveyData, isLoading, error, now, call, ret>>

\* removeAnalysis
removeAnalysis(id) ==
  /\ Shown
  /\ analyses' = SelectSeq(analyses, LAMBDA a : a.id # id)
  /\ UNCHANGED <<surveyData, isLoading, error, selectedAnalysisType, selectedFields,
                 isExecuting, now, lastExec, call, ret, realm>>

\* a millisecond passes
Tick ==
  /\ now < MaxClock
  /\ now' = now + 1
  /\ UNCHANGED <<surveyData, isLoading, error, selectedAnalysisType, selectedFields,
                 analyses, isExecuting, lastExec, call, ret, realm>>

-----------------------------------------------------------------------------
(* Direct calls of performAnalysis *)

\* performAnalysis(call.type, call.fields, surveyData.data) runs
PerformAnalysisStep ==
  /\ call.pending
  /\ RealmBounded(realm)
  /\ LET out == performAnalysis(call.type, call.fields, surveyData.data, realm)
     IN /\ ret' = out.result
        /\ realm' = out.realm
  /\ call' = [call EXCEPT !.pending = FALSE]
  /\ UNCHANGED <<surveyData, isLoading, error, selectedAnalysisType, selectedFields,
                 analyses, isExecuting, now, lastExec>>

\* the caller makes the same call again
CallAgain ==
  /\ ~call.pending
  /\ call.type # ""
  /\ RealmBounded(realm)
  /\ call' = [call EXCEPT !.pending = TRUE]
  /\ UNCHANGED <<surveyData, isLoading, error, selectedAnalysisType, selectedFields,
                 analyses, isExecuting, now, lastExec, ret, realm>>

-----------------------------------------------------------------------------
(* Inputs and specifications *)

\* the rows of a dataset of each family
MaxRows == 2
MaxSeriesRows == 5
MaxCorrRows == 3
MaxRankRows == 3

SeqsUpTo(S, n) == UNION {[1..k -> S] : k \in 0..n}

\* the lists of distinct fields of S with min..max fields
FieldLists(S, min, max) ==
  {fs \in SeqsUpTo(S, Min(max, Cardinality(S))) :
     Len(fs) >= min /\ \A i, j \in 1..Len(fs) : i # j => fs[i] # fs[j]}

\* a type without a case in performAnalysis
UnknownType == "Histogram"

\* datasets whose strings name a property that every object inherits, or a
\* property of Object
InheritedNameData ==
  { <<[g |-> Str("constructor"), v |-> Str("keys")]>>,
    <<[g |-> Str("constructor"), v |-> Num(1)]>> }

\* sparse rows: dates, unparsable and null values, missing keys
SparseRows ==
  {[g |-> Str("A"), d |-> dv, v |-> vv] :
     dv \in {Str("2022-01-01"), Str("2022-01-02"), Null},
     vv \in {Num(1), Num(3), Str("n/a")}}
  \cup {[g |-> Str("B")]}

\* series rows: a date and a number or null
SeriesRows ==
  {[d |-> Str(dv), v |-> Num(vv)] : dv \in {"2022-01-01", "2022-01-02"}, vv \in {1, 3}}
  \cup {[d |-> Str("2022-01-01"), v |-> Null]}

\* rows of numeric columns: y is 2x or 2, z is constant and missing in some rows
CorrRows ==
  {[x |-> Num(xy[1]), y |-> Num(xy[2])] : xy \in {<<1, 2>>, <<2, 4>>, <<3, 6>>, <<2, 2>>}}
  \cup {[x |-> Num(xy[1]), y |-> Num(xy[2]), z |-> Num(1)] :
          xy \in {<<1, 2>>, <<2, 4>>, <<3, 6>>, <<2, 2>>}}

\* the values of a ranked column
RankRows ==
  {[g |-> gv] : gv \in {Str("A"), Str("B"), Str("9"), Str("10"), Num(2), Null}}

\* the state of the component while performAnalysis is called directly
CallInit(type, fields, data) ==
  /\ surveyData = Survey(AllFields(data), data)
  /\ isLoading = FALSE
  /\ error = FALSE
  /\ selectedAnalysisType = ""
  /\ selectedFields = <<>>
  /\ analyses = <<>>
  /\ isExecuting = FALSE
  /\ now = 0
  /\ lastExec = NotExecuted
  /\ call = [pending |-> TRUE, type |-> type, fields |-> fields]
  /\ ret = NoResult
  /\ realm = PristineRealm

NextCalls == PerformAnalysisStep \/ CallAgain

\* the field lists within the bounds of a type; any short list for a type the
\* registry does not know
BoundedFieldLists(type, S) ==
  IF type \in ANALYSIS_TYPES
  THEN FieldLists(S, ANALYSIS_REQUIREMENTS(type).min, ANALYSIS_REQUIREMENTS(type).max)
  ELSE FieldLists(S, 0, 1)

\* every analysis type over sparse datasets
InitCalls ==
  \E type \in ANALYSIS_TYPES \cup {UnknownType} :
    \E fields \in BoundedFieldLists(type, {"g", "d", "v"}) :
      \E data \in SeqsUpTo(SparseRows, MaxRows) \cup InheritedNameData :
        CallInit(type, fields, data)

SpecCalls == InitCalls /\ [][NextCalls]_vars

\* the analyses of a series with a minimum number of points
SeriesTypes ==
  {"Anomaly (spike)", "Anomaly (trend)", "Trend with Forecast", "Process Control (mean)",
   "Process Control (rolling mean)"}

InitSeries ==
  \E type \in SeriesTypes :
    \E fields \in {<<"d">>, <<"d", "v">>} :
      \E data \in SeqsUpTo(SeriesRows, MaxSeriesRows) :
        CallInit(type, fields, data)

SpecSeries == InitSeries /\ [][NextCalls]_vars

\* the analyses of a time series, one name of each case and both control charts
TimeSeriesTypes ==
  {"Process Control (mean)", "Process Control (rolling mean)", "Anomaly (spike)",
   "Period over Period", "Trend with Forecast", "Time Series Decomposition"}

MaxTimeRows == 5

\* rows out of the order of their dates, a row without a date and a row whose
\* value is not a number
TimeRows ==
  { [d |-> Str("2022-01-03"), v |-> Num(1)], [d |-> Str("2022-01-01"), v |-> Num(3)],
    [d |-> Str("2022-01-02"), v |-> Num(1)], [d |-> Null, v |-> Num(1)],
    [d |-> Str("2022-01-02"), v |-> Str("n/a")] }

InitTimeSeries ==
  \E type \in TimeSeriesTypes :
    \E data \in SeqsUpTo(TimeRows, MaxTimeRows) :
      CallInit(type, <<"d", "v">>, data)

SpecTimeSeries == InitTimeSeries /\ [][NextCalls]_vars

InitCorrelation ==
  \E fields \in FieldLists({"x", "y", "z"}, 2, 3) :
    \E data \in SeqsUpTo(CorrRows, MaxCorrRows) :
      CallInit("Correlation", fields, data)

SpecCorrelation == InitCorrelation /\ [][NextCalls]_vars

InitRanking ==
  \E data \in SeqsUpTo(RankRows, MaxRankRows) \cup {<<[g |-> Str("constructor")]>>} :
    CallInit("Ranking", <<"g">>, data)

SpecRanking == InitRanking /\ [][NextCalls]_vars

\* a Breakdown of a column of up to MaxRankRows values, or of the name of a
\* property every object inherits
InitBreakdown ==
  \E data \in SeqsUpTo(RankRows, MaxRankRows) \cup {<<[g |-> Str("constructor")]>>} :
    CallInit("Breakdown", <<"g">>, data)

SpecBreakdown == InitBreakdown /\ [][NextCalls]_vars

\* the surveys the page can load, and the types chosen on it
Surveys ==
  { Survey(<<"g", "v">>, <<[g |-> Str("A"), v |-> Num(1)], [g |-> Str("B"), v |-> Num(3)]>>),
    Survey(<<"g", "v">>, <<[g |-> Str("constructor"), v |-> Str("keys")]>>) }
UiTypes == {"Overview", "Ranking", "Ranking (grouped)"}

\* the component after its first render
Init ==
  /\ surveyData = NoSurvey
  /\ isLoading = TRUE
  /\ error = FALSE
  /\ selectedAnalysisType = ""
  /\ selectedFields = <<>>
  /\ analyses = <<>>
  /\ isExecuting = FALSE
  /\ now = 0
  /\ lastExec = NotExecuted
  /\ call = NoCall
  /\ ret = NoResult
  /\ realm = PristineRealm

Next ==
  \/ \E d \in Surveys : FetchOk(d)
  \/ FetchFail
  \/ \E t \in UiTypes \cup {""} : SelectType(t)
  \/ \E f \in Range(surveyData.variablesList) : handleFieldToggle(f)
  \/ \E f \in Range(surveyData.variablesList) : RemoveChip(f)
  \/ executeAnalysis
  \/ \E a \in Range(analyses) : removeAnalysis(a.id)
  \/ Tick

Spec == Init /\ [][Next]_vars

-----------------------------------------------------------------------------
(* The statistics helpers on binary64 numbers *)

\* The helpers above compute on the integers of the modelled datasets, where
\* the sums and products of the code are exact.  A helper named ...64 is the
\* same code on arbitrary JavaScript numbers, every operation rounded.

\* a JavaScript number value
Number64(x) == [k |-> "number", n |-> x, s |-> ""]
\* a JavaScript string value among them
String64(s) == [k |-> "string", n |-> FZero, s |-> s]

\* values.reduce((a, b) => a + b, 0)
RECURSIVE FSum(_)
FSum(s) == IF s = <<>> THEN FZero ELSE FAdd(FSum(SubSeq(s, 1, Len(s) - 1)), Last(s))

\* values.reduce((a, b) => a + b, 0) / values.length
FMean(s) == FDiv(FSum(s), FromInt(Len(s)))

\* the loop of pearson: the sum of (a - meanA) * (b - meanB) over the pairs
RECURSIVE FSumOfProducts(_, _, _, _)
FSumOfProducts(as, bs, meanA, meanB) ==
  IF as = <<>> THEN FZero
  ELSE FAdd(FSumOfProducts(SubSeq(as, 1, Len(as) - 1), SubSeq(bs, 1, Len(bs) - 1), meanA, meanB),
            FMul(FSub(Last(as), meanA), FSub(Last(bs), meanB)))

\* if (denA === 0 || denB === 0) return 0; return num / Math.sqrt(denA * denB)
Quotient64(num, denA, denB) ==
  IF FIsZero(denA) \/ FIsZero(denB) THEN FZero ELSE FDiv(num, FSqrt(FMul(denA, denB)))

CorrAbout64(as, bs, meanA, meanB) ==
  Quotient64(FSumOfProducts(as, bs, meanA, meanB),
             FSumOfProducts(as, as, meanA, meanA),
             FSumOfProducts(bs, bs, meanB, meanB))

\* the numbers of a field of the rows
Column64(field, rows) == [i \in 1..Len(rows) |-> rows[i][field].n]

\* pearson
pearson64(fieldA, fieldB, rows) ==
  IF Len(BothNumbers(fieldA, fieldB, rows)) < 2 THEN FZero
  ELSE CorrAbout64(Column64(fieldA, BothNumbers(fieldA, fieldB, rows)),
                   Column64(fieldB, BothNumbers(fieldA, fieldB, rows)),
                   FMean(Column64(fieldA, BothNumbers(fieldA, fieldB, rows))),
                   FMean(Column64(fieldB, BothNumbers(fieldA, fieldB, rows))))

-----------------------------------------------------------------------------
(* Direct calls of the helpers *)

\* the calls of a helper the caller makes at most
MaxRuns == 2

\* a helper is called with its arguments; runs counts the calls that returned
HelperInit(helper, args) ==
  /\ surveyData = Survey(<<>>, <<>>)
  /\ isLoading = FALSE
  /\ error = FALSE
  /\ selectedAnalysisType = ""
  /\ selectedFields = <<>>
  /\ analyses = <<>>
  /\ isExecuting = FALSE
  /\ now = 0
  /\ lastExec = NotExecuted
  /\ call = [pending |-> TRUE, type |-> "", fields |-> <<>>, helper |-> helper, args |-> args,
             runs |-> 0]
  /\ ret = NoResult
  /\ realm = PristineRealm

\* the helper returns value
HelperReturns(value) ==
  /\ ret' = value
  /\ call' = [call EXCEPT !.pending = FALSE, !.runs = @ + 1]
  /\ UNCHANGED <<surveyData, isLoading, error, selectedAnalysisType, selectedFields,
                 analyses, isExecuting, now, lastExec, realm>>

\* the caller calls the helper again with the same arguments
HelperAgain ==
  /\ ~call.pending
  /\ call.runs < MaxRuns
  /\ call' = [call EXCEPT !.pending = TRUE]
  /\ UNCHANGED <<surveyData, isLoading, error, selectedAnalysisType, selectedFields,
                 analyses, isExecuting, now, lastExec, ret, realm>>

\* the numbers of the direct calls: small integers, a decimal fraction, and a
\* large and a small power of two
Doubles ==
  {FromInt(0), FromInt(1), FromInt(3), FDiv(FromInt(1), FromInt(10)), FPow2(600), FPow2(-600)}

\* pearson(call.args[1], call.args[2], call.args[3]) runs
PearsonStep ==
  /\ call.pending
  /\ HelperReturns(pearson64(call.args[1], call.args[2], call.args[3]))

MaxPearsonRows == 3

\* pearson of a field with itself, over rows whose field is a finite number or
\* a string
InitPearson ==
  \E rows \in SeqsUpTo([x : {Number64(d) : d \in Doubles} \cup {String64("a")}], MaxPearsonRows) :
    HelperInit("pearson", <<"x", "x", rows>>)

SpecPearson == InitPearson /\ [][PearsonStep \/ HelperAgain]_vars

\* values.reduce((acc, x) => acc + (x - mean) * (x - mean), 0)
RECURSIVE FSumSq(_, _)
FSumSq(s, mean) ==
  IF s = <<>> THEN FZero
  ELSE FAdd(FSumSq(SubSeq(s, 1, Len(s) - 1), mean), FMul(FSub(Last(s), mean), FSub(Last(s), mean)))

\* stddev
stddev64(values) ==
  IF Len(values) < 2 THEN FZero
  ELSE FSqrt(FDiv(FSumSq(values, FMean(values)), FromInt(Len(values) - 1)))

\* stddev(call.args[1]) runs
StddevStep ==
  /\ call.pending
  /\ HelperReturns(stddev64(call.args[1]))

MaxStddevValues == 3

InitStddev == \E values \in SeqsUpTo(Doubles, MaxStddevValues) : HelperInit("stddev", <<values>>)

SpecStddev == InitStddev /\ [][StddevStep \/ HelperAgain]_vars

\* movingAverage: sum after the iteration that pushes element i (counted from 1)
RECURSIVE RunningSum64(_, _, _)
RunningSum64(values, w, i) ==
  IF i = 0 THEN FZero
  ELSE IF i - 1 >= w
       THEN FSub(FAdd(RunningSum64(values, w, i - 1), values[i]), values[i - w])
       ELSE FAdd(RunningSum64(values, w, i - 1), values[i])

\* movingAverage
movingAverage64(values, window) ==
  [i \in 1..Len(values) |->
     FDiv(RunningSum64(values, Max(1, window), i), FromInt(Min(i, Max(1, window))))]

\* movingAverage(call.args[1], call.args[2]) runs
MovingAverageStep ==
  /\ call.pending
  /\ HelperReturns(movingAverage64(call.args[1], call.args[2]))

MaxAverageValues == 3

InitMovingAverage ==
  \E values \in SeqsUpTo(Doubles, MaxAverageValues) :
    \E window \in 0..MaxAverageValues :
      HelperInit("movingAverage", <<values, window>>)

SpecMovingAverage == InitMovingAverage /\ [][MovingAverageStep \/ HelperAgain]_vars

\* kmeans2D(call.args[1], call.args[2], call.args[3]) runs
KMeansStep ==
  /\ call.pending
  /\ HelperReturns(kmeans2D(call.args[1], call.args[2], call.args[3]))

MaxPoints == 3
MaxIters == 2

\* the points of the direct calls
GridPoints == [x : {0, 1, 3}, y : {0, 2}]

\* kmeans2D over up to MaxPoints points, for 1 to ClusterK clusters
InitKMeans ==
  \E pts \in SeqsUpTo(GridPoints, MaxPoints) :
    \E k \in 1..ClusterK :
      \E iters \in 0..MaxIters :
        HelperInit("kmeans2D", <<pts, k, iters>>)

\* the clock advances between the calls
SpecKMeans == InitKMeans /\ [][KMeansStep \/ HelperAgain \/ Tick]_vars

\* toEpochMs(call.args[1]) runs
ToEpochMsStep ==
  /\ call.pending
  /\ HelperReturns(toEpochMs(call.args[1]))

\* the greatest time of a Date of the direct calls
MaxDateTime == 1

\* the values of the direct calls: Excel serials around 0 and around 2022-01-01
\* with and without a fraction, dates, strings, and the other kinds
EpochInputs ==
  {Fraction(n, s) : n \in {-2, -1, 0, 1, 44561, 44562}, s \in {"", ".25", ".5", ".75"}}
  \cup {DateValue(t) : t \in 0..MaxDateTime} \cup {DateValue(455832), InvalidDate}
  \cup {Str(s) : s \in {"2022-01-01", "2022-01-01T12:00Z", "Monday", ""}}
  \cup {Null, Undefined, NaN, Infinity, Boolean(TRUE), Fn("Object")}

InitToEpochMs == \E value \in EpochInputs : HelperInit("toEpochMs", <<value>>)

SpecToEpochMs == InitToEpochMs /\ [][ToEpochMsStep \/ HelperAgain]_vars

\* splitLastPeriod(call.args[1]) runs
SplitLastPeriodStep ==
  /\ call.pending
  /\ HelperReturns(splitLastPeriod(call.args[1]))

MaxSplitPoints == 48

\* a series of n points, one a day
DailySeries(n) == [i \in 1..n |-> [t |-> i * DayLength, y |-> i]]

InitSplitLastPeriod == \E n \in 0..MaxSplitPoints : HelperInit("splitLastPeriod", <<DailySeries(n)>>)

SpecSplitLastPeriod == InitSplitLastPeriod /\ [][SplitLastPeriodStep \/ HelperAgain]_vars

\* linearRegression(call.args[1], call.args[2]) runs
LinearRegressionStep ==
  /\ call.pending
  /\ HelperReturns(linearRegression(call.args[1], call.args[2]))

MaxFitPoints == 3

\* the points of the direct calls and their coordinates
FitPoints == [x : {0, 1, 3}, y : {0, 1, 2}]
Xs(pts) == [i \in 1..Len(pts) |-> R(pts[i].x)]
RYsOf(pts) == [i \in 1..Len(pts) |-> R(pts[i].y)]

InitLinearRegression ==
  \E pts \in SeqsUpTo(FitPoints, MaxFitPoints) :
    HelperInit("linearRegression", <<Xs(pts), RYsOf(pts)>>)

SpecLinearRegression == InitLinearRegression /\ [][LinearRegressionStep \/ HelperAgain]_vars

\* isMostlyNumeric(call.args[1], call.args[2]) or
\* isMostlyDateLike(call.args[1], call.args[2]) runs
SamplingStep ==
  /\ call.pending
  /\ HelperReturns(IF call.helper = "isMostlyNumeric"
                   THEN isMostlyNumeric(call.args[1], call.args[2])
                   ELSE isMostlyDateLike(call.args[1], call.args[2]))

\* a column is up to MaxBlocks runs of one value each
MaxBlocks == 3
BlockLengths == {0, 1, 15, 35}
\* the values of a column: a finite number, a date, a word, null, NaN
BlockValues == {Num(1), Str("2022-01-01"), Str("n/a"), Null, NaN}

Block(value, length) == [i \in 1..length |-> [v |-> value]]

RECURSIVE Columns(_)
Columns(blocks) ==
  IF blocks = 0 THEN {<<>>}
  ELSE {Block(value, length) \o rest :
          value \in BlockValues, length \in BlockLengths, rest \in Columns(blocks - 1)}

\* the calls: a column of runs, a field no row has, no field
SamplingCalls ==
  {<<"v", rows>> : rows \in Columns(MaxBlocks)}
  \cup {<<"w", Block(Num(1), 1)>>, <<NoField, Block(Num(1), 1)>>}

InitSampling ==
  \E helper \in {"isMostlyNumeric", "isMostlyDateLike"}, args \in SamplingCalls :
    HelperInit(helper, args)

SpecSampling == InitSampling /\ [][SamplingStep \/ HelperAgain]_vars

MaxPairRows == 3

\* rows of two fields: x is a decimal fraction, 1, Infinity (JSON.parse of
\* 1e999) or a string, y is a small integer
PairRows ==
  [x : {Number64(FDiv(FromInt(1), FromInt(10))), Number64(FromInt(1)), Number64(FInf(0)),
        String64("a")},
   y : {Number64(FromInt(0)), Number64(FromInt(1)), Number64(FromInt(3))}]

\* pearson of two fields
InitPearsonPairs ==
  \E rows \in SeqsUpTo(PairRows, MaxPairRows) : HelperInit("pearson", <<"x", "y", rows>>)

SpecPearsonPairs == InitPearsonPairs /\ [][PearsonStep \/ HelperAgain]_vars

MaxClusterRows == 3

\* rows of three columns: x is a number or a word, y and z are numbers
ClusterRows ==
  {[g |-> Str("A"), x |-> xv, y |-> Num(yv), z |-> Num(1)] :
     xv \in {Num(0), Num(4), Str("a")}, yv \in {0, 3}}

\* a dataset of more rows with two numbers than a clustering samples: a row
\* without a number in x, then points whose x goes through six spots in turn;
\* the first centres are the near spots 0, 1 and 2, and the clusters settle
\* after several iterations
Spots == <<0, 5, 1, 9, 2, 30>>
LongClusterData ==
  [i \in 1..(ClusterSampleCap + 2) |->
     IF i = 1 THEN [x |-> Str("a"), y |-> Num(0)]
     ELSE [x |-> Num(Spots[((i - 2) % Len(Spots)) + 1]), y |-> Num(0)]]

\* clusterings of short datasets over every choice of fields, and of the long
\* dataset
InitClustering ==
  \/ \E fields \in FieldLists({"g", "x", "y"}, 2, 3) :
       \E data \in SeqsUpTo(ClusterRows, MaxClusterRows) :
         CallInit("Clustering (k-means)", fields, data)
  \/ CallInit("Clustering (k-means)", <<"x", "y">>, LongClusterData)

SpecClustering == InitClustering /\ [][NextCalls]_vars

MaxAnomalyRows == 12

\* a series of n rows over three days whose values are 0 but for a at row p and
\* b at row q
OutlierData(n, p, a, q, b) ==
  [i \in 1..n |->
     [d |-> Str(<<"2022-01-01", "2022-01-02", "2022-01-03">>[(i % 3) + 1]),
      v |-> Num(IF i = q THEN b ELSE IF i = p THEN a ELSE 0)]]

\* both anomaly analyses of such series, with the date and the value field
\* selected, in either order, or one of them
InitAnomaly ==
  \E type \in {"Anomaly (spike)", "Anomaly (trend)"} :
    \E fields \in {<<"d", "v">>, <<"v", "d">>, <<"d">>, <<"v">>} :
      \E n \in 4..MaxAnomalyRows :
        \E p, q \in 1..n, a, b \in {0, 1, 40} :
          CallInit(type, fields, OutlierData(n, p, a, q, b))

SpecAnomaly == InitAnomaly /\ [][NextCalls]_vars

-----------------------------------------------------------------------------
(* Claims *)

\* the direct call has returned
Returned == call.type # "" /\ ~call.pending

\* the dataset of the call
Data == surveyData.data

\* a calculation envelope whose only entry is Error
IsErrorOnly(r) == r.type = "calculation" /\ Len(r.data) = 1 /\ r.data[1].key = "Error"
\* a calculation envelope with an Error entry
HasError(r) == r.type = "calculation" /\ \E i \in 1..Len(r.data) : r.data[i].key = "Error"

\* C1: a request whose field count is outside [min, max] of its type is rejected
\* before performAnalysis runs and records nothing, and a request whose count is
\* within [min, max] is accepted and produces a result
C1_BoundsDecideExecution ==
  lastExec.outcome # "none" =>
    IF /\ lastExec.type # ""
       /\ lastExec.count >= ANALYSIS_REQUIREMENTS(lastExec.type).min
       /\ lastExec.count <= ANALYSIS_REQUIREMENTS(lastExec.type).max
    THEN lastExec.outcome = "recorded"
    ELSE lastExec.outcome = "rejected" /\ ~lastExec.ran

\* C2: for every analysis type, every field list within bounds and every
\* dataset, performAnalysis returns an envelope tagged "plotly" or "calculation"
\* and never throws
C2_ReturnsAnEnvelope == Returned => ret.type \in {"plotly", "calculation"}

\* the fields the time-based analyses resolve for the call
CallTimeField == ResolveTimeField(call.fields, Data)
CallValueField == ResolveValueField(call.fields, Data)
\* the series extractTimeSeries yields for the call
CallSeries == extractTimeSeries(CallTimeField, CallValueField, Data)
FieldsResolved == CallTimeField # NoField /\ CallValueField # NoField

\* C3: when extractTimeSeries yields fewer than 5 points, Anomaly (spike),
\* Anomaly (trend) and Trend with Forecast return a calculation envelope whose
\* only entry is Error; when it yields fewer than 2 points, the two Process
\* Control analyses do the same
C3_ShortSeriesIsAnError ==
  (Returned /\ FieldsResolved) =>
    /\ (call.type \in {"Anomaly (spike)", "Anomaly (trend)", "Trend with Forecast"}
        /\ Len(CallSeries) < 5) => IsErrorOnly(ret)
    /\ (call.type \in {"Process Control (mean)", "Process Control (rolling mean)"}
        /\ Len(CallSeries) < 2) => IsErrorOnly(ret)

\* an anomaly analysis of a series of 4 points has returned its Error
C3_Witness ==
  /\ Returned /\ FieldsResolved
  /\ call.type = "Anomaly (spike)"
  /\ Len(CallSeries) = 4
  /\ IsErrorOnly(ret)

\* the field Trend Over Time uses as its time field
TrendTimeField ==
  IF At(call.fields, 0) # NoField THEN At(call.fields, 0) ELSE At(DateFieldsAll(Data), 0)

\* C4: Trend Over Time returns a calculation envelope with an Error entry
\* whenever the field used as time field (the first selected field, or the
\* auto-detected one when none is selected) is not date-like
C4_TrendNeedsADateField ==
  (Returned /\ call.type = "Trend Over Time" /\ ~isMostlyDateLike(TrendTimeField, Data))
    => HasError(ret)

\* the analyses that need a date-like and a numeric field
TimeValueTypes ==
  {"Process Control (mean)", "Process Control (rolling mean)", "Anomaly (spike)",
   "Anomaly (trend)", "Period over Period", "Period over Period (selected)",
   "Period Changes", "Period Changes (detailed)", "Trend with Forecast",
   "Time Series Decomposition"}

\* C5 as stated: for Year to Date, Process Control, Anomaly, Period over Period /
\* Period Changes, Trend with Forecast and Time Series Decomposition, when no
\* date-like field or no numeric field is selected or detected the result is a
\* calculation envelope with a single Error entry
C5_AsStated ==
  (Returned /\ call.type \in TimeValueTypes \cup {"Year to Date"} /\ ~FieldsResolved)
    => IsErrorOnly(ret)

\* C5: for Process Control, Anomaly, Period over Period / Period Changes, Trend
\* with Forecast and Time Series Decomposition, when no date-like field or no
\* numeric field is selected or detected the result is a calculation envelope
\* with a single Error entry; Year to Date returns that envelope exactly when no
\* date-like field is selected or detected, and a chart of cumulative counts
\* when only the numeric field is missing
C5_MissingFieldIsAnError ==
  Returned =>
    /\ (call.type \in TimeValueTypes /\ ~FieldsResolved) => IsErrorOnly(ret)
    /\ call.type = "Year to Date" =>
         IF CallTimeField = NoField THEN IsErrorOnly(ret) ELSE ret.type = "plotly"

\* Year to Date has returned a chart for a dataset with dates and no numbers
C5_Witness ==
  /\ Returned
  /\ call.type = "Year to Date"
  /\ CallTimeField # NoField /\ CallValueField = NoField
  /\ ret.type = "plotly"
  /\ Len(ret.data[1].y) > 0

\* the selected fields whose first-row value is a number
CallNumericFields == SelectSeq(call.fields, LAMBDA f : IsNumber(FirstRowValue(f, Data)))

\* rows [{x:1,y:2},{x:2,y:4},{x:3,y:6}]
ExampleRows ==
  <<[x |-> Num(1), y |-> Num(2)], [x |-> Num(2), y |-> Num(4)], [x |-> Num(3), y |-> Num(6)]>>

RankKey(v) == IF IsFalsy(v) THEN "Unknown" ELSE JsString(v)
\* the rows (by index) of the group of a key
GroupRows(field, key) == {i \in 1..Len(Data) : RankKey(Get(Data[i], field)) = key}
\* the sum of the numeric values of a group, each other value counting 1
RECURSIVE GroupTotalUpTo(_, _, _)
GroupTotalUpTo(field, key, i) ==
  IF i = 0 THEN 0
  ELSE GroupTotalUpTo(field, key, i - 1)
       + (IF i \in GroupRows(field, key)
          THEN (IF IsNumber(Get(Data[i], field)) THEN Get(Data[i], field).n ELSE 1)
          ELSE 0)
GroupTotal(field, key) == GroupTotalUpTo(field, key, Len(Data))
\* the keys of all groups
GroupKeys(field) == {RankKey(Get(Data[i], field)) : i \in 1..Len(Data)}

\* C7: Ranking groups rows by the string value of the first field, gives each
\* group the sum of its numeric values (or its number of occurrences), and
\* returns at most 10 groups in non-increasing order of that value, no omitted
\* group having a larger value than a returned one; values [A,A,B] yield A with 2
\* before B with 1
C7_RankingTotals ==
  (Returned /\ call.type = "Ranking") =>
    LET field == call.fields[1]
        keys == ret.data[1].y
        vals == ret.data[1].x
    IN /\ Len(keys) <= 10
       /\ Len(keys) = Min(10, Cardinality(GroupKeys(field)))
       /\ \A i \in 1..Len(keys) : vals[i] = Num(GroupTotal(field, keys[i]))
       /\ \A i, j \in 1..Len(keys) : i < j => vals[i].n >= vals[j].n
       /\ \A key \in GroupKeys(field) \ Range(keys) :
            \A i \in 1..Len(keys) : GroupTotal(field, key) <= vals[i].n
       /\ Data = <<[g |-> Str("A")], [g |-> Str("A")], [g |-> Str("B")]>> =>
            keys = <<"A", "B">> /\ vals = <<Num(2), Num(1)>>

\* the first row of the group of a key
FirstRow(field, key) ==
  CHOOSE i \in GroupRows(field, key) : \A j \in GroupRows(field, key) : i <= j

\* C8: in Ranking, groups with equal aggregated value appear in the order in
\* which their keys were first encountered in the rows, for every kind of key
\* including numeric-looking keys
C8_TiesKeepEncounterOrder ==
  (Returned /\ call.type = "Ranking") =>
    LET field == call.fields[1]
        keys == ret.data[1].y
        vals == ret.data[1].x
    IN \A i, j \in 1..Len(keys) :
         (i < j /\ vals[i] = vals[j]) => FirstRow(field, keys[i]) < FirstRow(field, keys[j])

\* C9: Trend with Forecast on a series of at least 5 points emits exactly 10
\* forecast points at times lastT + i * step, step being the difference of the
\* last two observed times, each a future time after the last observation, with
\* the values a + b * t of the least-squares fit over the full series; for points
\* on a line the fit has the slope of that line
C9_ForecastContinuesTheSeries ==
  (Returned /\ call.type = "Trend with Forecast" /\ FieldsResolved /\ Len(CallSeries) >= 5) =>
    LET pts == CallSeries
        n == Len(pts)
        lastT == pts[n].t
        step == pts[n].t - pts[n - 1].t
        fit == linearRegression(MapSeq(Ts(pts), R), RYs(pts))
        fc == ret.data[2]
    IN /\ ret.type = "plotly"
       /\ Len(fc.x) = 10 /\ Len(fc.y) = 10
       /\ \A i \in 1..Len(fc.x) :
            /\ fc.x[i] = lastT + i * step
            /\ fc.x[i] > lastT
            /\ fc.y[i] = RAdd(fit.a, RMul(fit.b, R(fc.x[i])))
       /\ (/\ pts[1].t # pts[n].t
           /\ \A i \in 1..n : (pts[i].y - pts[1].y) * (pts[n].t - pts[1].t)
                              = (pts[n].y - pts[1].y) * (pts[i].t - pts[1].t))
          => fit.b = Rat(pts[n].y - pts[1].y, pts[n].t - pts[1].t)

\* C10: performAnalysis only reads its inputs: after the call the dataset and
\* the field list are unchanged and no state outside the returned envelope is
\* modified (the global Object has the properties it had), so a later call with
\* the same inputs returns the same result
C10_OnlyReadsItsInputs ==
  Returned =>
    /\ realm = PristineRealm
    /\ surveyData.variablesList = AllFields(Data)

\* the direct call of helper has returned
HelperReturned(helper) == call.helper = helper /\ ~call.pending

\* the numbers among the values of a field
NumbersOf(field, rows) == Column64(field, SelectSeq(rows, LAMBDA r : IsNumber(r[field])))

\* C11: pearson(f, f, rows) equals 1 for every field f that has at least 2
\* numeric values and nonzero variance (its numeric values are not all equal)
C11_SelfCorrelationIsOne ==
  (/\ HelperReturned("pearson")
   /\ call.args[1] = call.args[2]
   /\ Len(NumbersOf(call.args[1], call.args[3])) >= 2
   /\ Cardinality(Range(NumbersOf(call.args[1], call.args[3]))) >= 2)
  => ret = FromInt(1)

\* the values in the order p
Reordered(values, p) == [i \in 1..Len(values) |-> values[p[i]]]

\* C12: stddev returns 0 for every input of length 0 or 1, otherwise the square
\* root of the sum of squared deviations from the mean divided by n - 1, and
\* its result does not depend on the order of the input values
C12_StddevIgnoresOrder ==
  HelperReturned("stddev") =>
    /\ Len(call.args[1]) < 2 => ret = FZero
    /\ \A p \in Permutations(1..Len(call.args[1])) :
         stddev64(Reordered(call.args[1], p)) = ret

\* values[max(0, i - w + 1)..i], counted from 1
Window(values, w, i) == SubSeq(values, Max(1, i - w + 1), i)

\* C13: movingAverage(values, w) returns a list of the same length as values
\* whose element i is the mean of values[max(0, i - w + 1)..i]; in particular
\* movingAverage(values, 1) equals values
C13_MovingAverageIsTheWindowMean ==
  HelperReturned("movingAverage") =>
    /\ Len(ret) = Len(call.args[1])
    /\ \A i \in 1..Len(ret) :
         ret[i] = FMean(Window(call.args[1], Max(1, call.args[2]), i))
    /\ call.args[2] = 1 => ret = call.args[1]

LabelledSum(xs, labels, c) == SumSeq([i \in 1..Len(xs) |-> IF labels[i] = c THEN xs[i] ELSE 0])
\* the number of points labelled c
LabelledCount(labels, c) == Cardinality({i \in 1..Len(labels) : labels[i] = c})
\* centre is the mean of the points labelled c
IsMeanOf(centre, pts, labels, c) ==
  /\ centre.x = Rat(LabelledSum([i \in 1..Len(pts) |-> pts[i].x], labels, c), LabelledCount(labels, c))
  /\ centre.y = Rat(LabelledSum([i \in 1..Len(pts) |-> pts[i].y], labels, c), LabelledCount(labels, c))
\* no centre is nearer to p than centre l, and every centre before l is farther
IsFirstNearest(p, centers, l) ==
  /\ \A c \in 1..Len(centers) : RLe(Dist2(p, centers[l + 1]), Dist2(p, centers[c]))
  /\ \A c \in 1..l : RLt(Dist2(p, centers[l + 1]), Dist2(p, centers[c]))
\* after is what one iteration of kmeans2D makes of the centres of before
IsIterationOf(after, before, pts) ==
  /\ \A i \in 1..Len(pts) : IsFirstNearest(pts[i], before.centers, after.labels[i])
  /\ \A c \in 1..Len(before.centers) :
       IF LabelledCount(after.labels, c - 1) = 0
       THEN after.centers[c] = before.centers[c]
       ELSE IsMeanOf(after.centers[c], pts, after.labels, c - 1)

\* C19: in every kmeans2D iteration each point is labelled with the nearest
\* centre by squared Euclidean distance, the lowest index winning ties; a centre
\* with no points keeps its coordinates and every other centre becomes the mean
\* of its points; every label is an integer in [0, k)
C19_KMeansIteration ==
  (HelperReturned("kmeans2D") /\ Len(call.args[1]) > 0) =>
    /\ Len(ret.labels) = Len(call.args[1])
    /\ Len(ret.centers) = call.args[2]
    /\ \A i \in 1..Len(ret.labels) : ret.labels[i] \in 0..(call.args[2] - 1)
    /\ call.args[3] > 0 =>
         IsIterationOf(ret, kmeans2D(call.args[1], call.args[2], call.args[3] - 1), call.args[1])

\* the last iteration found a point as near to one centre as to another, gave a
\* centre two points and left a centre without points
C19_Witness ==
  /\ HelperReturned("kmeans2D")
  /\ call.args[3] = MaxIters
  /\ \E c \in 1..call.args[2] : LabelledCount(ret.labels, c - 1) = 0
  /\ \E c \in 1..call.args[2] : LabelledCount(ret.labels, c - 1) >= 2
  /\ \E i \in 1..Len(call.args[1]) :
       \E c \in 1..call.args[2] :
         /\ c - 1 > ret.labels[i]
         /\ Dist2(call.args[1][i],
                  kmeans2D(call.args[1], call.args[2], call.args[3] - 1).centers[c])
              = Dist2(call.args[1][i],
                      kmeans2D(call.args[1], call.args[2], call.args[3] - 1).centers[ret.labels[i] + 1])

\* r is v rounded to an integer: no integer is nearer to v = n + s
IsRounded(r, v) ==
  LET q == CASE v.s = ".25" -> 1 [] v.s = ".5" -> 2 [] v.s = ".75" -> 3 [] OTHER -> 0
  IN 4 * r - (4 * v.n + q) \in -2..2

\* value.getTime() of a Date
GetTime(value) == IF value.s = "Invalid Date" THEN NaN ELSE Num(value.n)

\* what toEpochMs returned, as a JavaScript value
ReturnedValue == IF ret.some THEN Num(ret.t) ELSE Null

\* what the claim says of every value but a Date
EpochOfOthers(value) ==
  /\ (IsNumber(value)) =>
       /\ ret.some
       /\ \E r \in {value.n, value.n + 1} :
            IsRounded(r, value) /\ ret.t = excelEpoch + r * DayLength
  /\ (value = Num(44562)) => ret = Time(455832)
  /\ (value.k \in {"null", "undefined", "NaN", "Infinity", "boolean", "function"}) => ret = NoTime
  /\ (value.k = "string" /\ ~DateParse(value.s).some) => ret = NoTime

\* C15 as stated: toEpochMs maps a native date value to its own epoch-ms, a
\* finite number v to UTC(1899-12-30) + round(v) days, and null, non-finite
\* numbers, unparsable strings and any other kind of value to null
C15_AsStated ==
  HelperReturned("toEpochMs") =>
    /\ (call.args[1].k = "date") => ReturnedValue = GetTime(call.args[1])
    /\ EpochOfOthers(call.args[1])

\* C15: toEpochMs maps a native date value with a valid time to its own
\* epoch-ms and an Invalid Date to null, a finite number v to UTC(1899-12-30) +
\* round(v) days (serial 44562 to 2022-01-01 00:00 UTC), and null, non-finite
\* numbers, unparsable strings and any other kind of value to null
C15_EpochOfAValue ==
  HelperReturned("toEpochMs") =>
    /\ (call.args[1].k = "date") =>
         ReturnedValue = (IF GetTime(call.args[1]) = NaN THEN Null ELSE GetTime(call.args[1]))
    /\ EpochOfOthers(call.args[1])

\* the serial with a fraction of a half has been converted
C15_Witness ==
  /\ HelperReturned("toEpochMs")
  /\ call.args[1] = Fraction(44561, ".5")
  /\ ret = Time(455832)

\* max(10, floor(0.25 n))
ClaimedPeriod(n) == Max(MinPeriod, n \div 4)

\* C16: splitLastPeriod, with period = max(10, floor(0.25 n)), returns as
\* current the last period points (the whole series when n < period) and as
\* previous the period points immediately before current, clamped at the start
\* of the series (fewer, possibly none), for every n >= 0
C16_SplitLastPeriod ==
  HelperReturned("splitLastPeriod") =>
    LET series == call.args[1]
        n == Len(series)
        period == ClaimedPeriod(n)
    IN /\ ret.current = (IF n < period THEN series ELSE SubSeq(series, n - period + 1, n))
       /\ ret.previous = SubSeq(series, Max(1, n - 2 * period + 1), Max(0, n - period))

\* the sum of weights[i] * (ys[i] - a - b * xs[i])
WeightedResidual(weights, xs, ys, fit) ==
  RSum([i \in 1..Len(xs) |-> RMul(weights[i], RSub(ys[i], RAdd(fit.a, RMul(fit.b, xs[i]))))])

\* fit is the least-squares line of the points: its residuals sum to zero, and
\* so do the residuals weighted by x
IsLeastSquares(fit, xs, ys) ==
  /\ WeightedResidual([i \in 1..Len(xs) |-> R(1)], xs, ys, fit) = R(0)
  /\ WeightedResidual(xs, xs, ys, fit) = R(0)

\* C17: linearRegression returns {a: 0, b: 0} whenever there are fewer than 2
\* points or all x values are equal; otherwise it returns the intercept a and
\* the slope b of the ordinary least-squares line
C17_LinearRegression ==
  HelperReturned("linearRegression") =>
    IF Len(call.args[1]) < 2 \/ Cardinality(Range(call.args[1])) = 1
    THEN ret = [a |-> R(0), b |-> R(0)]
    ELSE IsLeastSquares(ret, call.args[1], call.args[2])

\* the points are in the order of their times
IsSortedByT(pts) == \A i \in 1..(Len(pts) - 1) : pts[i].t <= pts[i + 1].t

\* the rows whose time converts and whose value is a number, and their points
KeptRows(timeField, valueField, rows) ==
  SelectSeq(rows, LAMBDA r : toEpochMs(Get(r, timeField)).some /\ IsNumber(Get(r, valueField)))
PointOf(r, timeField, valueField) ==
  [t |-> toEpochMs(Get(r, timeField)).t, y |-> Get(r, valueField).n]

\* the series that hold one point for every kept row, sorted by time
SortedSeries(timeField, valueField, rows) ==
  { s \in { [i \in 1..Len(KeptRows(timeField, valueField, rows)) |->
               PointOf(KeptRows(timeField, valueField, rows)[p[i]], timeField, valueField)] :
            p \in Permutations(1..Len(KeptRows(timeField, valueField, rows))) } :
      IsSortedByT(s) }

\* what the case of a time-based analysis makes of a series
AnalysisOf(type, timeField, valueField, pts) ==
  CASE type \in {"Process Control (mean)", "Process Control (rolling mean)"} ->
         ProcessControlOf(type, timeField, valueField, pts)
    [] type = "Anomaly (spike)" -> AnomalyOf(type, timeField, valueField, pts)
    [] type = "Period over Period" -> PeriodOf(type, valueField, pts)
    [] type = "Trend with Forecast" -> ForecastOf(timeField, valueField, pts)
    [] type = "Time Series Decomposition" -> DecompositionOf(timeField, valueField, pts)

\* C18: extractTimeSeries keeps a row exactly when toEpochMs of its time is
\* non-null and its value is a finite number, and returns the kept points
\* sorted by non-decreasing t; Process Control, Anomaly, Period over Period,
\* Trend with Forecast and Time Series Decomposition return what they compute
\* from a series sorted this way
C18_SeriesIsKeptAndSorted ==
  (Returned /\ call.type \in TimeSeriesTypes /\ FieldsResolved) =>
    /\ CallSeries \in SortedSeries(CallTimeField, CallValueField, Data)
    /\ \E s \in SortedSeries(CallTimeField, CallValueField, Data) :
         ret = AnalysisOf(call.type, CallTimeField, CallValueField, s)

\* a chart drawn from rows that were out of order, with a row dropped for its
\* date and a row dropped for its value
C18_Witness ==
  /\ Returned
  /\ call.type \in TimeSeriesTypes
  /\ FieldsResolved
  /\ ret.type = "plotly"
  /\ Len(CallSeries) >= 3
  /\ \E i \in 1..Len(Data) : Get(Data[i], CallTimeField) = Null
  /\ \E i \in 1..Len(Data) : Get(Data[i], CallValueField) = Str("n/a")
  /\ \E i, j \in 1..Len(Data) :
       /\ i < j
       /\ toEpochMs(Get(Data[i], CallTimeField)).some
       /\ toEpochMs(Get(Data[j], CallTimeField)).some
       /\ toEpochMs(Get(Data[i], CallTimeField)).t > toEpochMs(Get(Data[j], CallTimeField)).t

\* the number of rows whose value is filed under key
Occurrences(field, key) == Cardinality(GroupRows(field, key))

\* the bars are the shown most frequent values with their counts, then Other
IsBreakdownOf(field, labels, counts, shown) ==
  /\ \A i \in 1..shown :
       /\ labels[i] \in GroupKeys(field)
       /\ counts[i] = Num(Occurrences(field, labels[i]))
  /\ \A i, j \in 1..shown : i < j => (labels[i] # labels[j] /\ counts[i].n >= counts[j].n)
  /\ \A key \in GroupKeys(field) \ {labels[i] : i \in 1..shown} :
       \A i \in 1..shown : Occurrences(field, key) <= counts[i].n
  /\ IF Len(Data) > SumSeq([i \in 1..shown |-> counts[i].n])
     THEN /\ Len(labels) = shown + 1
          /\ labels[shown + 1] = "Other"
          /\ counts[shown + 1] = Num(Len(Data) - SumSeq([i \in 1..shown |-> counts[i].n]))
     ELSE Len(labels) = shown

\* C20: Breakdown counts the occurrences of each value of the first field and
\* emits the 25 most frequent values in non-increasing order of their counts,
\* followed by one bar "Other" that is the sum of the remaining counts; "Other"
\* is there exactly when that remainder is greater than 0
C20_BreakdownBars ==
  (Returned /\ call.type = "Breakdown") =>
    /\ ret.type = "plotly"
    /\ Len(ret.data[1].x) = Len(ret.data[1].y)
    /\ Len(ret.data[1].x) >= Min(BreakdownTop, Cardinality(GroupKeys(call.fields[1])))
    /\ IsBreakdownOf(call.fields[1], ret.data[1].x, ret.data[1].y,
                     Min(BreakdownTop, Cardinality(GroupKeys(call.fields[1]))))

\* the rows whose value of the field is not null, in row order
NonNullRows(field, rows) ==
  SelectSeq([i \in 1..Len(rows) |-> i], LAMBDA i : ~IsNullish(Get(rows[i], field)))

\* the rows of the first 50 non-null values
SampleRows(field, rows) ==
  {NonNullRows(field, rows)[n] : n \in 1..Min(50, Len(NonNullRows(field, rows)))}

\* at least 70% of the sampled values pass
SeventyPercent(field, rows, Passes(_)) ==
  /\ field # NoField
  /\ SampleRows(field, rows) # {}
  /\ 10 * Cardinality({i \in SampleRows(field, rows) : Passes(rows[i][field])})
       >= 7 * Cardinality(SampleRows(field, rows))

IsFiniteNumber(v) == v.k = "number"
HasEpoch(v) == toEpochMs(v).some

\* C21: isMostlyNumeric samples the first 50 non-null values of the field in
\* row order and returns true iff the sample is not empty and at least 70% of
\* it are finite numbers; isMostlyDateLike does the same with "toEpochMs is
\* non-null" as the test
C21_SamplingRule ==
  /\ HelperReturned("isMostlyNumeric") =>
       (ret <=> SeventyPercent(call.args[1], call.args[2], IsFiniteNumber))
  /\ HelperReturned("isMostlyDateLike") =>
       (ret <=> SeventyPercent(call.args[1], call.args[2], HasEpoch))

\* a column with more than 50 non-null values after leading nulls, whose first
\* 50 non-null values are 70% numbers while the whole column is not
C21_Witness ==
  /\ HelperReturned("isMostlyNumeric")
  /\ ret = TRUE
  /\ IsNullish(call.args[2][1].v)
  /\ Len(NonNullRows(call.args[1], call.args[2])) > 50
  /\ 10 * Len(SelectSeq(call.args[2], LAMBDA r : IsNumber(r.v)))
       < 7 * Len(NonNullRows(call.args[1], call.args[2]))

\* the rows in which both fields are finite numbers
FiniteRows(fieldA, fieldB, rows) ==
  SelectSeq(rows, LAMBDA r : /\ IsNumber(r[fieldA]) /\ FIsFinite(r[fieldA].n)
                             /\ IsNumber(r[fieldB]) /\ FIsFinite(r[fieldB].n))

\* the values of the field are all the same
ZeroVariance(field, rows) == Cardinality({rows[i][field].n : i \in 1..Len(rows)}) <= 1

\* C22: pearson returns 0 when fewer than 2 rows have a finite number in both
\* fields or when either field has zero variance over those rows
C22_PearsonIsZero ==
  (/\ HelperReturned("pearson")
   /\ call.args[1] # call.args[2]
   /\ LET valid == FiniteRows(call.args[1], call.args[2], call.args[3])
      IN \/ Len(valid) < 2
         \/ ZeroVariance(call.args[1], valid)
         \/ ZeroVariance(call.args[2], valid))
  => ret = FZero

\* no name twice in the list
NoDuplicates(s) == \A i, j \in 1..Len(s) : i # j => s[i] # s[j]

\* the selected fields are distinct and at most max of the selected type
SelectionWithinMax ==
  /\ NoDuplicates(selectedFields)
  /\ IF selectedAnalysisType = "" THEN selectedFields = <<>>
     ELSE Len(selectedFields) <= ANALYSIS_REQUIREMENTS(selectedAnalysisType).max

\* C23: after any sequence of type selections, field toggles and chip removals
\* the selected fields hold no name twice and are at most max of the selected
\* type; a step that changes the type empties the list, and while no type is
\* selected no step changes the list
C23_SelectionStaysWithinMax ==
  /\ SelectionWithinMax
  /\ [][/\ SelectionWithinMax'
        /\ selectedAnalysisType' # selectedAnalysisType => selectedFields' = <<>>
        /\ (selectedAnalysisType = "" /\ selectedAnalysisType' = "")
             => selectedFields' = selectedFields]_vars

\* a type of at most one field is selected with one of the two fields of the
\* survey, after another type was run
C23_Witness ==
  /\ selectedAnalysisType = "Ranking"
  /\ selectedFields = <<"v">>
  /\ Len(surveyData.variablesList) = 2
  /\ Len(analyses) > 0

\* the numeric candidate fields: the selected fields that are mostly numeric,
\* else the fields of the dataset that are
NumericCandidates ==
  IF \E i \in 1..Len(call.fields) : isMostlyNumeric(call.fields[i], Data)
  THEN SelectSeq(call.fields, LAMBDA f : isMostlyNumeric(f, Data))
  ELSE SelectSeq(AllFields(Data), LAMBDA f : isMostlyNumeric(f, Data))

\* the rows in which both fields are numbers
RowsWithBoth(xField, yField) ==
  SelectSeq([i \in 1..Len(Data) |-> i],
            LAMBDA i : IsNumber(Get(Data[i], xField)) /\ IsNumber(Get(Data[i], yField)))

\* the points of the first 1500 of those rows
SampledPoints(xField, yField) ==
  LET rows == RowsWithBoth(xField, yField)
  IN Array([n \in 1..Min(1500, Len(rows)) |->
              [x |-> Data[rows[n]][xField].n, y |-> Data[rows[n]][yField].n]])

\* the coordinates of the points with the label, in the order of the points
Labelled(pts, labels, label, axis) ==
  LET mine == SelectSeq([i \in 1..Len(pts) |-> i], LAMBDA i : labels[i] = label)
  IN [n \in 1..Len(mine) |-> pts[mine[n]][axis]]

\* the three traces hold the points of clusters 0, 1 and 2 of kmeans2D
IsClusteringOf(pts, traces) ==
  LET labels == kmeans2D(pts, 3, 20).labels
  IN /\ Len(traces) = 3
     /\ \A c \in 1..3 :
          /\ traces[c].name = "Cluster " \o ToString(c)
          /\ traces[c].x = Labelled(pts, labels, c - 1, "x")
          /\ traces[c].y = Labelled(pts, labels, c - 1, "y")

\* C24: Clustering (k-means) returns an Error calculation unless there are at
\* least 2 numeric candidate fields (selected, else detected); otherwise it
\* runs kmeans2D with k = 3 and 20 iterations on the first 2 candidates over
\* the first 1500 rows in which both are numbers, and emits exactly 3 traces
C24_ClusteringChart ==
  (Returned /\ call.type = "Clustering (k-means)") =>
    IF Len(NumericCandidates) < 2
    THEN ret = ErrorResult("Need at least 2 numeric fields")
    ELSE /\ ret.type = "plotly"
         /\ IsClusteringOf(SampledPoints(NumericCandidates[1], NumericCandidates[2]), ret.data)

\* a clustering of a dataset with more than 1500 rows of two numbers
C24_Witness ==
  /\ Returned /\ call.type = "Clustering (k-means)"
  /\ ret.type = "plotly"
  /\ Len(RowsWithBoth("x", "y")) > 1500
  /\ Len(ret.data[1].x) + Len(ret.data[2].x) + Len(ret.data[3].x) = 1500

\* the points of a trace
TracePoints(trace) == [i \in 1..Len(trace.x) |-> [x |-> trace.x[i], y |-> trace.y[i]]]

\* how often the point is in the list
TimesIn(p, pts) == Len(SelectSeq(pts, LAMBDA q : q = p))

\* the points the clustering of the call samples
CallSample == SampledPoints(NumericCandidates[1], NumericCandidates[2])

\* C30: in the Clustering (k-means) result every sampled point is in exactly
\* one of the 3 cluster traces: the traces together hold each point as often
\* as the sample does, and their sizes sum to the number of sampled points
C30_TracesPartitionTheSample ==
  (Returned /\ call.type = "Clustering (k-means)" /\ ret.type = "plotly") =>
    LET sample == CallSample
        traced == TracePoints(ret.data[1]) \o TracePoints(ret.data[2]) \o TracePoints(ret.data[3])
    IN /\ Len(ret.data) = 3
       /\ \A c \in 1..3 : Len(ret.data[c].x) = Len(ret.data[c].y)
       /\ Len(traced) = Len(sample)
       /\ \A p \in Range(sample) : TimesIn(p, traced) = TimesIn(p, sample)

\* two points are sampled and two of the three clusters hold them
C30_Witness ==
  /\ Returned /\ call.type = "Clustering (k-means)" /\ ret.type = "plotly"
  /\ Len(CallSample) = 2
  /\ Len(ret.data[1].x) = 1
  /\ Len(ret.data[2].x) = 0
  /\ Len(ret.data[3].x) = 1

\* the fields of the call and of the dataset
CallFields == Range(call.fields) \cup Range(AllFields(Data))

\* C25: a field that isMostlyNumeric takes for numeric isMostlyDateLike takes
\* for date-like, so the anomaly analyses take a numeric field that is selected
\* first for the time field, the same field they take for the value field
C25_NumericIsDateLike ==
  (Returned /\ call.type \in {"Anomaly (spike)", "Anomaly (trend)"}) =>
    /\ \A f \in CallFields : isMostlyNumeric(f, Data) => isMostlyDateLike(f, Data)
    /\ (ret.type = "plotly" /\ isMostlyNumeric(call.fields[1], Data)) =>
         (ret.layout.xaxis = call.fields[1] /\ ret.layout.yaxis = call.fields[1])

\* the numeric field v is the time field and the value field of the chart,
\* though the date field d was selected with it
C25_Witness ==
  /\ Returned /\ call.type = "Anomaly (spike)"
  /\ call.fields = <<"v", "d">>
  /\ \A i \in 1..Len(Data) : IsNumber(Data[i].v)
  /\ ret.type = "plotly"
  /\ ret.layout.xaxis = "v"
  /\ ret.layout.yaxis = "v"

\* what the call returns for the other anomaly type
AnomalyResult(type) == performAnalysis(type, call.fields, Data, PristineRealm).result

\* the flagged points of an anomaly chart
Flagged(chart) == TracePoints(chart.data[2])

\* C29: for the same dataset and fields every point that Anomaly (spike) flags
\* Anomaly (trend) flags too, and both draw the same threshold line, at the
\* mean plus 3 deviations of the values
C29_SpikesAreTrendAnomalies ==
  (Returned /\ call.type \in {"Anomaly (spike)", "Anomaly (trend)"}) =>
    LET spike == IF call.type = "Anomaly (spike)" THEN ret ELSE AnomalyResult("Anomaly (spike)")
        trend == IF call.type = "Anomaly (trend)" THEN ret ELSE AnomalyResult("Anomaly (trend)")
    IN /\ spike.type = trend.type
       /\ spike.type = "plotly" =>
            /\ \A p \in Range(Flagged(spike)) :
                 TimesIn(p, Flagged(spike)) <= TimesIn(p, Flagged(trend))
            /\ spike.data[3] = trend.data[3]
            /\ \A i \in 1..Len(spike.data[3].y) :
                 spike.data[3].y[i] = Surd(MeanOf(spike.data[1].y), R(3), stddev(spike.data[1].y))

\* the spike variant flags a point of a series, and the trend variant flags it
C29_Witness ==
  /\ Returned /\ call.type = "Anomaly (spike)"
  /\ call.fields = <<"d", "v">>
  /\ ret.type = "plotly"
  /\ Len(ret.data[2].y) = 1
  /\ Flagged(AnomalyResult("Anomaly (trend)")) = Flagged(ret)

\* the ids of the kept analyses are pairwise distinct
DistinctIds(list) == \A i, j \in 1..Len(list) : i # j => list[i].id # list[j].id

\* after is before without exactly one of its entries, the others in order
RemovesOne(before, after) ==
  \E i \in 1..Len(before) :
    after = SubSeq(before, 1, i - 1) \o SubSeq(before, i + 1, Len(before))

\* C26: the kept analyses have pairwise distinct ids; an executeAnalysis that
\* passes the bounds check appends exactly one entry, leaves the earlier ones
\* as they were and empties the selected type and fields; removeAnalysis(id)
\* removes exactly one entry and keeps the others in order
C26_AnalysesList ==
  /\ DistinctIds(analyses)
  /\ [][/\ DistinctIds(analyses')
        /\ (executeAnalysis /\ canExecuteAnalysis) =>
             /\ Len(analyses') = Len(analyses) + 1
             /\ SubSeq(analyses', 1, Len(analyses)) = analyses
             /\ selectedAnalysisType' = ""
             /\ selectedFields' = <<>>
        /\ \A a \in Range(analyses) :
             removeAnalysis(a.id) => RemovesOne(analyses, analyses')]_vars

\* C27: the slices of splitLastPeriod are disjoint index ranges of the series:
\* previous ends where current begins, current ends at the last point, and
\* neither is longer than period = max(10, floor(0.25 n))
C27_SlicesAreAdjacentRanges ==
  HelperReturned("splitLastPeriod") =>
    LET series == call.args[1]
        n == Len(series)
    IN \E from \in 0..n : \E cut \in from..n :
         /\ ret.previous = SubSeq(series, from + 1, cut)
         /\ ret.current = SubSeq(series, cut + 1, n)
         /\ cut - from <= ClaimedPeriod(n)
         /\ n - cut <= ClaimedPeriod(n)

\* a series shorter than the period whose split has points in both slices
C27_Witness ==
  /\ HelperReturned("splitLastPeriod")
  /\ Len(call.args[1]) < ClaimedPeriod(Len(call.args[1]))
  /\ Len(ret.previous) > 0
  /\ Len(ret.current) > 0

\* C28: in Breakdown the bar heights, the "Other" bar included, are numbers
\* that sum to the number of rows of the dataset, and the bars of the values
\* are of distinct values, so that no row is counted in two bars
C28_BarsSumToRows ==
  (Returned /\ call.type = "Breakdown" /\ ret.type = "plotly") =>
    LET labels == ret.data[1].x
        counts == ret.data[1].y
        shown == Min(BreakdownTop, Len(labels))
    IN /\ \A i \in 1..Len(counts) : IsNumber(counts[i])
       /\ SumSeq([i \in 1..Len(counts) |-> counts[i].n]) = Len(Data)
       /\ \A i, j \in 1..shown : i # j => labels[i] # labels[j]

====
